---- MODULE Spec2Model ----
(***************************************************************************)
(* Auros scan controller: run_full_scan (api/services/pipeline.py), the    *)
(* trigger / stop endpoints (api/routers/search.py) and the cron firing    *)
(* (api/scheduler/jobs.py), as asyncio tasks of one process over one       *)
(* database.  Every `await` of the source is a suspension point; a step    *)
(* of the model is the resumption from one await up to the next one.       *)
(* Awaits whose result is not shared state (the scrape, the language model *)
(* calls) are folded into the database commit that follows them, and the   *)
(* read that opens _update_scan_state and _complete_scan_state is taken    *)
(* together with their commit.  A database operation takes effect at the   *)
(* step that resumes from it.                                              *)
(***************************************************************************)
EXTENDS Integers, Sequences, FiniteSets, TLC

\* ---------------------------------------------------------------- bounds
MaxInv == 2          \* run_full_scan invocations created in one behaviour
MaxPostings == 2     \* postings returned by one scrape
NumUrls == 1         \* distinct posting urls
MaxClock == 1        \* ticks of the wall clock

Urls == 1..NumUrls

\* ------------------------------------------------------------- companies
\* The rows of the companies table, in table order.
CompanyIds == <<"c1", "c2", "c3">>

RECURSIVE SelectEnabled(_, _)
SelectEnabled(rows, n) ==
    IF n > Len(CompanyIds) THEN <<>>
    ELSE IF rows[CompanyIds[n]].enabled
         THEN <<CompanyIds[n]>> \o SelectEnabled(rows, n + 1)
         ELSE SelectEnabled(rows, n + 1)

\* select(Company).where(Company.enabled == True)
EnabledCompanies(rows) == SelectEnabled(rows, 1)

NoRow == [exists |-> FALSE]
None == "None"
\* a null DateTime column
NoTime == -1

VARIABLES
    tasks,             \* run_full_scan invocations (asyncio tasks / scheduler runs)
    scanState,         \* the scan_state row with id "current", or NoRow
    companies,         \* company id -> [enabled, scrape_status]
    jobs,              \* the jobs table, in insertion order; scan: the
                       \* invocation whose INSERT made the row
    scanLogs,          \* the scan_logs table, in insertion order
    metrics,           \* SCANS_TOTAL, SCANS_RUNNING, SCRAPE_ERRORS
    background_tasks,  \* search._background_tasks
    stop,              \* where the POST /search/stop request in flight is
    trigger,           \* the status a POST /search/trigger is about to return
    now                \* datetime.now(UTC)

\* The helpers the scan calls, each studied on its own: one call of
\* retry_async, one _fetch_descriptions_for_links fan-out, one
\* _browser_context scope, one scrape_jobs_with_descriptions call, one
\* _parse_schedule_hours call, one _process_job call on a new posting, one
\* compute_match_score call, one _process_job call on a posting that may be
\* persisted (seen), one _scrape_workday_links call (workday), the network
\* operations of one generic scrape (nav), the RateLimitMiddleware
\* (limiter), one safe_json_parse call (json).
VARIABLES retry, fetch, browser, scrape, hours, posting, match, seen, workday,
          nav, limiter, json

scanVars == <<tasks, scanState, companies, jobs, scanLogs, metrics,
              background_tasks, stop, trigger, now>>

helperVars == <<retry, fetch, browser, scrape, hours, posting, match, seen, workday, nav, limiter, json>>

vars == <<scanVars, helperVars>>

\* a helper that is not under study
Off == [pc |-> "off"]

Inv == 1..Len(tasks)

Terminal == {"noop", "done", "aborted", "cancelled"}

\* positions inside the try block of _process_company
TryPcs == {"scrape", "job_lookup", "job_insert", "notify", "notified",
           "job_update"}

\* positions between the singleton guard and the completion step
ActivePcs == {"reset_read", "reset_commit", "enumerate", "handler", "complete"}
                 \cup TryPcs

\* ScanContext(scan_id, started_at): the counts and the error list; the
\* scan_id is the task's index, started_at is a local of the task
NewContext ==
    [companies_scanned |-> 0, jobs_found |-> 0, jobs_new |-> 0, errors |-> <<>>]

\* A task: where it is suspended (pc), who started it, whether cancel() was
\* called on it, and the locals of run_full_scan, _process_company and
\* _process_job: the ScanContext, the index of the company (ci) in the
\* enumeration, the number of scraped postings (jobs_found), the index (ji)
\* of the posting at hand, the url last read, the row of new_job, and
\* whether scrape_jobs_with_descriptions has returned for the company at
\* hand (scraped).
\* stopped: a stop request found the invocation past its guard; result:
\* the dict a refused call returned.
NewTask(origin) ==
    [pc |-> "guard", origin |-> origin, cancel |-> FALSE, stopped |-> FALSE,
     started_at |-> NoTime, found |-> FALSE, ctx |-> NewContext,
     companies |-> <<>>, ci |-> 0,
     jobs_found |-> 0, ji |-> 0, url |-> 0, new_job |-> 0, result |-> <<>>,
     scraped |-> FALSE]

\* A task that is done keeps no locals; one that an exception ended keeps
\* how far the company loop got.
Ended(t, pc) ==
    IF pc = "aborted"
    THEN [NewTask(t.origin) EXCEPT !.pc = pc, !.ci = t.ci,
                                   !.companies = t.companies]
    ELSE [NewTask(t.origin) EXCEPT !.pc = pc]

\* A migrated, seeded database and a started process: no scan_state row
\* yet, no job, no task.  The companies in `on` are enabled.
Start(on) ==
    /\ tasks = <<>>
    /\ scanState = NoRow
    /\ companies = [c \in {"c1", "c2", "c3"} |->
                      [enabled |-> c \in on, scrape_status |-> None]]
    /\ jobs = <<>>
    /\ scanLogs = <<>>
    /\ metrics = [scans_total |-> 0, scans_running |-> 0, scrape_errors |-> 0]
    /\ background_tasks = {}
    /\ stop = "idle"
    /\ trigger = None
    /\ now = 0

HelpersOff ==
    /\ retry = Off
    /\ fetch = Off
    /\ browser = Off
    /\ scrape = Off
    /\ hours = Off
    /\ posting = Off
    /\ match = Off
    /\ seen = Off
    /\ workday = Off
    /\ nav = Off
    /\ limiter = Off
    /\ json = Off

Init == Start({"c1"}) /\ HelpersOff

InitOne == Start({"c1", "c2"}) /\ HelpersOff

\* ------------------------------------------------------- pure functions

\* variant: a guard that never sees a running scan
is_scan_running_never(st) == FALSE

\* _is_scan_running: state is not None and state.status == "running"
is_scan_running(st) == st.exists /\ st.status = "running"

\* variant: a status read that ignores the row
get_scan_status_default(st) ==
    [status |-> "idle", started_at |-> NoTime, completed_at |-> NoTime,
     companies_scanned |-> 0, jobs_found |-> 0, jobs_new |-> 0,
     errors |-> <<>>]

\* get_scan_status: the status dict of the row, or the idle default
get_scan_status(st) ==
    IF st.exists
    THEN [status |-> st.status, started_at |-> st.started_at,
          completed_at |-> st.completed_at,
          companies_scanned |-> st.companies_scanned,
          jobs_found |-> st.jobs_found, jobs_new |-> st.jobs_new,
          errors |-> st.errors]
    ELSE [status |-> "idle", started_at |-> NoTime, completed_at |-> NoTime,
          companies_scanned |-> 0, jobs_found |-> 0, jobs_new |-> 0,
          errors |-> <<>>]

\* variant: a reset that leaves a completion time in the row
reset_scan_state_stamped(started_at) ==
    [exists |-> TRUE, status |-> "running", started_at |-> started_at,
     completed_at |-> started_at, companies_scanned |-> 0, jobs_found |-> 0,
     jobs_new |-> 0, errors |-> <<>>]

\* _reset_scan_state: the row written by its commit
reset_scan_state(started_at) ==
    [exists |-> TRUE, status |-> "running", started_at |-> started_at,
     completed_at |-> NoTime, companies_scanned |-> 0, jobs_found |-> 0,
     jobs_new |-> 0, errors |-> <<>>]

\* _update_scan_state: counts and errors of the context, nothing else
update_scan_state(st, ctx) ==
    IF st.exists
    THEN [st EXCEPT !.companies_scanned = ctx.companies_scanned,
                    !.jobs_found = ctx.jobs_found,
                    !.jobs_new = ctx.jobs_new,
                    !.errors = ctx.errors]
    ELSE st

\* variant: a completion that marks the row and leaves its counts alone
complete_scan_state_status_only(st, ctx, t) ==
    IF st.exists
    THEN [st EXCEPT !.status = "completed", !.completed_at = t]
    ELSE st

\* _complete_scan_state
complete_scan_state(st, ctx, t) ==
    IF st.exists
    THEN [st EXCEPT !.status = "completed", !.completed_at = t,
                    !.companies_scanned = ctx.companies_scanned,
                    !.jobs_found = ctx.jobs_found,
                    !.jobs_new = ctx.jobs_new,
                    !.errors = ctx.errors]
    ELSE st

\* variant: an except clause that catches every exception
Classified_any(exc) == TRUE

\* the except clause of _process_company
Classified(exc) ==
    exc \in {"ScrapeError", "HTTPError", "TimeoutError", "SQLAlchemyError"}

\* select(Job).where(Job.url == url) ... .first(): index of the row, or 0
FindJob(rows, url) ==
    IF \E k \in 1..Len(rows) : rows[k].url = url
    THEN CHOOSE k \in 1..Len(rows) :
             /\ rows[k].url = url
             /\ \A m \in 1..(k - 1) : rows[m].url # url
    ELSE 0

\* variant: a jobs table without the unique index
UrlIsFree_unindexed(rows, url) == TRUE

\* the unique index ix_jobs_url: may a row with this url be inserted
UrlIsFree(rows, url) == \A k \in 1..Len(rows) : rows[k].url # url

\* ------------------------------------------------------ control flow

\* the company loop of run_full_scan, after _process_company returned
AfterCompany(t) ==
    LET u == [t EXCEPT !.ctx.jobs_found = @ + t.jobs_found,
                       !.ji = 0, !.jobs_found = 0, !.new_job = 0,
                       !.scraped = FALSE]
    IN  IF t.ci < Len(t.companies)
        THEN [u EXCEPT !.ci = @ + 1, !.pc = "scrape"]
        ELSE [u EXCEPT !.pc = "complete"]

\* the posting loop of _process_company, after _process_job returned
AfterJob(t) ==
    IF t.ji < t.jobs_found
    THEN [t EXCEPT !.ji = @ + 1, !.pc = "job_lookup", !.new_job = 0]
    ELSE AfterCompany(t)

\* _process_job returned True: jobs_new += 1; ctx.jobs_new += 1
CountNew(t) == [t EXCEPT !.ctx.jobs_new = @ + 1, !.pc = "job_update"]

\* An exception raised at the await where task i is suspended: caught by
\* the except clause of _process_company when raised inside its try block
\* and classified, otherwise it leaves run_full_scan through the finally
\* clause (SCANS_RUNNING.dec()) and ends the task.
Throw(i, t, exc) ==
    IF t.pc \in TryPcs /\ Classified(exc)
    THEN /\ tasks' = [tasks EXCEPT ![i] = [t EXCEPT !.pc = "handler", !.ji = 0,
                                                     !.new_job = 0]]
         /\ UNCHANGED metrics
    ELSE /\ tasks' = [tasks EXCEPT ![i] =
                        Ended(t, IF exc = "CancelledError"
                                 THEN "cancelled" ELSE "aborted")]
         /\ metrics' = IF t.pc \in {"guard", "refused"} THEN metrics
                       ELSE [metrics EXCEPT !.scans_running = @ - 1]

\* No coroutine runs between the last await of a handler and its return.
Responded == trigger = None

Runnable(i, pc) ==
    /\ Responded
    /\ i \in Inv
    /\ tasks[i].pc = pc
    /\ ~tasks[i].cancel

\* ------------------------------------------------ run_full_scan, by await

\* lines 308-319 and 85: the singleton guard; a refused invocation goes on
\* to read the status, an admitted one bumps the metrics and takes started_at
run_full_scan_guard(i) ==
    /\ Runnable(i, "guard")
    /\ IF is_scan_running(scanState)
       THEN /\ tasks' = [tasks EXCEPT ![i].pc = "refused"]
            /\ UNCHANGED metrics
       ELSE /\ tasks' = [tasks EXCEPT ![i].pc = "reset_read",
                                      ![i].started_at = now]
            /\ metrics' = [metrics EXCEPT !.scans_total = @ + 1,
                                          !.scans_running = @ + 1]
    /\ UNCHANGED <<scanState, companies, jobs, scanLogs, background_tasks,
                   stop, trigger, now>>

\* line 309: a refused invocation returns get_scan_status
run_full_scan_refused(i) ==
    /\ Runnable(i, "refused")
    /\ tasks' = [tasks EXCEPT ![i] =
                   [Ended(@, "noop") EXCEPT
                       !.result = <<get_scan_status(scanState)>>]]
    /\ UNCHANGED <<scanState, companies, jobs, scanLogs, metrics,
                   background_tasks, stop, trigger, now>>

\* line 88: _reset_scan_state looks the row up
run_full_scan_reset_read(i) ==
    /\ Runnable(i, "reset_read")
    /\ tasks' = [tasks EXCEPT ![i].pc = "reset_commit",
                              ![i].found = scanState.exists]
    /\ UNCHANGED <<scanState, companies, jobs, scanLogs, metrics,
                   background_tasks, stop, trigger, now>>

\* lines 89-104: the commit of _reset_scan_state; the INSERT of a row that
\* another session inserted meanwhile violates the primary key
run_full_scan_reset_commit(i) ==
    /\ Runnable(i, "reset_commit")
    /\ IF ~tasks[i].found /\ scanState.exists
       THEN /\ Throw(i, tasks[i], "SQLAlchemyError")
            /\ UNCHANGED scanState
       ELSE /\ scanState' = reset_scan_state(tasks[i].started_at)
            /\ tasks' = [tasks EXCEPT ![i].pc = "enumerate",
                                      ![i].found = FALSE,
                                      ![i].started_at = NoTime]
            /\ UNCHANGED metrics
    /\ UNCHANGED <<companies, jobs, scanLogs, background_tasks, stop,
                   trigger, now>>

\* lines 323-328: enumerate the enabled companies, persist the count
run_full_scan_enumerate(i) ==
    /\ Runnable(i, "enumerate")
    /\ LET found == EnabledCompanies(companies)
           t == [tasks[i] EXCEPT !.companies = found,
                                 !.ctx.companies_scanned = Len(found)]
       IN  /\ scanState' = update_scan_state(scanState, t.ctx)
           /\ tasks' = [tasks EXCEPT ![i] =
                          IF found = <<>>
                          THEN [t EXCEPT !.pc = "complete"]
                          ELSE [t EXCEPT !.pc = "scrape", !.ci = 1]]
    /\ UNCHANGED <<companies, jobs, scanLogs, metrics, background_tasks,
                   stop, trigger, now>>

\* lines 243-253: scrape_jobs_with_descriptions and the commit of the
\* company's scrape_status
process_company_scrape(i) ==
    /\ Runnable(i, "scrape")
    /\ \/ /\ Throw(i, tasks[i], "ScrapeError")
          /\ UNCHANGED companies
       \/ \E found \in 0..MaxPostings, ok \in BOOLEAN :
            LET t == [tasks[i] EXCEPT !.jobs_found = found, !.scraped = TRUE]
                c == t.companies[t.ci]
            IN  IF ok
                THEN /\ companies' = [companies EXCEPT ![c].scrape_status = "success"]
                     /\ tasks' = [tasks EXCEPT ![i] =
                                    IF found = 0 THEN AfterCompany(t)
                                    ELSE [t EXCEPT !.pc = "job_lookup", !.ji = 1]]
                     /\ UNCHANGED metrics
                ELSE /\ Throw(i, t, "SQLAlchemyError")
                     /\ UNCHANGED companies
    /\ UNCHANGED <<scanState, jobs, scanLogs, background_tasks, stop,
                   trigger, now>>

\* lines 142-158: look the posting's url up; a persisted one gets its
\* last_seen bumped, a title that is no potential match is skipped.  The
\* url and the title of the posting are the scraper's; they are drawn here,
\* where they are first read.
process_job_lookup(i) ==
    /\ Runnable(i, "job_lookup")
    /\ \E url \in Urls :
         LET t == [tasks[i] EXCEPT !.url = url]
             k == FindJob(jobs, url)
         IN  IF k # 0
             THEN \E ok \in BOOLEAN :
                    IF ok
                    THEN /\ jobs' = [jobs EXCEPT ![k].last_seen = now]
                         /\ tasks' = [tasks EXCEPT ![i] = AfterJob(t)]
                         /\ UNCHANGED metrics
                    ELSE /\ Throw(i, t, "SQLAlchemyError")
                         /\ UNCHANGED jobs
             ELSE /\ \E is_potential_match \in BOOLEAN :
                       tasks' = [tasks EXCEPT ![i] =
                                   IF is_potential_match
                                   THEN [t EXCEPT !.pc = "job_insert"]
                                   ELSE AfterJob(t)]
                  /\ UNCHANGED <<jobs, metrics>>
    /\ UNCHANGED <<scanState, companies, scanLogs, background_tasks, stop,
                   trigger, now>>

\* lines 160-226: the language-model calls, then the INSERT of the new Job;
\* the score decides whether the notifier is called
process_job_insert(i) ==
    /\ Runnable(i, "job_insert")
    /\ LET t == tasks[i]
       IN  \/ /\ Throw(i, t, "HTTPError")
              /\ UNCHANGED jobs
           \/ \E ok \in BOOLEAN, notify \in BOOLEAN :
                IF ok /\ UrlIsFree(jobs, t.url)
                THEN /\ jobs' = Append(jobs, [url |-> t.url, first_seen |-> now,
                                              last_seen |-> now,
                                              notified |-> FALSE, scan |-> i])
                     /\ tasks' = [tasks EXCEPT ![i] =
                                    IF notify
                                    THEN [t EXCEPT !.pc = "notify",
                                                   !.new_job = Len(jobs) + 1]
                                    ELSE CountNew(t)]
                     /\ UNCHANGED metrics
                ELSE /\ Throw(i, t, "SQLAlchemyError")
                     /\ UNCHANGED jobs
    /\ UNCHANGED <<scanState, companies, scanLogs, background_tasks, stop,
                   trigger, now>>

\* lines 219-222: notify_new_job raises, or returns whether the message was
\* sent
process_job_notify(i) ==
    /\ Runnable(i, "notify")
    /\ LET t == tasks[i]
       IN  \/ Throw(i, t, "HTTPError")
           \/ /\ tasks' = [tasks EXCEPT ![i] = CountNew(t)]
              /\ UNCHANGED metrics
           \/ /\ tasks' = [tasks EXCEPT ![i].pc = "notified"]
              /\ UNCHANGED metrics
    /\ UNCHANGED <<scanState, companies, jobs, scanLogs, background_tasks,
                   stop, trigger, now>>

\* lines 223-226: the message was sent; the commit of notified = True (the
\* UPDATE also refreshes last_seen, models.py line 46: onupdate)
process_job_notified(i) ==
    /\ Runnable(i, "notified")
    /\ LET t == tasks[i]
       IN  \E ok \in BOOLEAN :
             IF ok
             THEN /\ jobs' = [jobs EXCEPT ![t.new_job].notified = TRUE,
                                           ![t.new_job].last_seen = now]
                  /\ tasks' = [tasks EXCEPT ![i] = CountNew(t)]
                  /\ UNCHANGED metrics
             ELSE /\ Throw(i, t, "SQLAlchemyError")
                  /\ UNCHANGED jobs
    /\ UNCHANGED <<scanState, companies, scanLogs, background_tasks, stop,
                   trigger, now>>

\* line 262: _update_scan_state after a new job
process_company_update(i) ==
    /\ Runnable(i, "job_update")
    /\ LET t == tasks[i]
       IN  \E ok \in BOOLEAN :
             IF ok
             THEN /\ scanState' = update_scan_state(scanState, t.ctx)
                  /\ tasks' = [tasks EXCEPT ![i] = AfterJob(t)]
                  /\ UNCHANGED metrics
             ELSE /\ Throw(i, t, "SQLAlchemyError")
                  /\ UNCHANGED scanState
    /\ UNCHANGED <<companies, jobs, scanLogs, background_tasks, stop,
                   trigger, now>>

\* variant: an except clause that keeps no record of the failure
record_error_dropped(errors, c) == errors

\* line 268: ctx.errors.append(f"{company.name}: {exc}"); an entry is
\* identified by the company name that opens it, the text of the message
\* is left out
record_error(errors, c) == Append(errors, c)

\* lines 264-272: the except clause of _process_company; its own commit
\* is not guarded
process_company_failed(i) ==
    /\ Runnable(i, "handler")
    /\ LET t == tasks[i]
           c == t.companies[t.ci]
       IN  \E ok \in BOOLEAN :
             IF ok
             THEN /\ companies' = [companies EXCEPT ![c].scrape_status = "failed"]
                  /\ tasks' = [tasks EXCEPT ![i] =
                                 AfterCompany([t EXCEPT !.ctx.errors =
                                                 record_error(@, c)])]
                  /\ metrics' = [metrics EXCEPT !.scrape_errors = @ + 1]
             ELSE /\ Throw(i, t, "SQLAlchemyError")
                  /\ UNCHANGED companies
    /\ UNCHANGED <<scanState, jobs, scanLogs, background_tasks, stop,
                   trigger, now>>

\* line 333: _complete_scan_state
run_full_scan_complete(i) ==
    /\ Runnable(i, "complete")
    /\ scanState' = complete_scan_state(scanState, tasks[i].ctx, now)
    /\ tasks' = [tasks EXCEPT ![i].pc = "log"]
    /\ UNCHANGED <<companies, jobs, scanLogs, metrics, background_tasks,
                   stop, trigger, now>>

\* lines 336-346: the ScanLog row
run_full_scan_log(i) ==
    /\ Runnable(i, "log")
    /\ LET ctx == tasks[i].ctx
       IN  scanLogs' = Append(scanLogs,
                              [id |-> i,
                               companies_scanned |-> ctx.companies_scanned,
                               jobs_found |-> ctx.jobs_found,
                               jobs_new |-> ctx.jobs_new,
                               errors |-> ctx.errors])
    /\ tasks' = [tasks EXCEPT ![i].pc = "finish"]
    /\ UNCHANGED <<scanState, companies, jobs, metrics, background_tasks,
                   stop, trigger, now>>

\* variant: a return that leaves the gauge as it is
run_full_scan_return_no_finally(i) ==
    /\ Runnable(i, "finish")
    /\ tasks' = [tasks EXCEPT ![i] = Ended(@, "done")]
    /\ UNCHANGED <<scanState, companies, jobs, scanLogs, metrics,
                   background_tasks, stop, trigger, now>>

\* lines 356-358: return get_scan_status; finally SCANS_RUNNING.dec()
run_full_scan_return(i) ==
    /\ Runnable(i, "finish")
    /\ tasks' = [tasks EXCEPT ![i] = Ended(@, "done")]
    /\ metrics' = [metrics EXCEPT !.scans_running = @ - 1]
    /\ UNCHANGED <<scanState, companies, jobs, scanLogs, background_tasks,
                   stop, trigger, now>>

\* task.cancel() takes effect: CancelledError is raised at the await where
\* the task is suspended
cancel_delivered(i) ==
    /\ Responded
    /\ i \in Inv
    /\ tasks[i].cancel
    /\ tasks[i].pc \notin Terminal
    /\ Throw(i, tasks[i], "CancelledError")
    /\ UNCHANGED <<scanState, companies, jobs, scanLogs, background_tasks,
                   stop, trigger, now>>

\* ------------------------------------------------- api/routers/search.py

\* variant: a done callback that leaves the task in the registry
task_done_callback_kept(i) ==
    /\ Responded
    /\ i \in background_tasks
    /\ tasks[i].pc \in Terminal
    /\ UNCHANGED <<tasks, scanState, companies, jobs, scanLogs, metrics,
                   background_tasks, stop, trigger, now>>

\* _task_done_callback: runs once the task is done
task_done_callback(i) ==
    /\ Responded
    /\ i \in background_tasks
    /\ tasks[i].pc \in Terminal
    /\ background_tasks' = background_tasks \ {i}
    /\ UNCHANGED <<tasks, scanState, companies, jobs, scanLogs, metrics,
                   stop, trigger, now>>

\* trigger_scan, lines 38-54, up to the return statement
trigger_scan ==
    /\ Responded
    /\ IF get_scan_status(scanState).status = "running"
       THEN /\ trigger' = "running"
            /\ UNCHANGED <<tasks, background_tasks>>
       ELSE /\ Len(tasks) < MaxInv
            /\ tasks' = Append(tasks, NewTask("trigger"))
            /\ background_tasks' = background_tasks \cup {Len(tasks) + 1}
            /\ trigger' = "started"
    /\ UNCHANGED <<scanState, companies, jobs, scanLogs, metrics, stop, now>>

\* trigger_scan returns: the response leaves the handler
trigger_scan_return ==
    /\ trigger # None
    /\ trigger' = None
    /\ UNCHANGED <<tasks, scanState, companies, jobs, scanLogs, metrics,
                   background_tasks, stop, now>>

\* stop_scan, lines 60-70: cancel every registered task that is not done
stop_scan_cancel ==
    /\ Responded
    /\ stop = "idle"
    /\ tasks' = [i \in Inv |->
                   IF tasks[i].pc \in Terminal THEN tasks[i]
                   ELSE [tasks[i] EXCEPT !.stopped = tasks[i].pc \notin {"guard", "refused"},
                                         !.cancel = @ \/ i \in background_tasks]]
    /\ stop' = "read"
    /\ UNCHANGED <<scanState, companies, jobs, scanLogs, metrics,
                   background_tasks, trigger, now>>

\* stop_scan, lines 70-73: read the row
stop_scan_read ==
    /\ Responded
    /\ stop = "read"
    /\ stop' = IF is_scan_running(scanState) THEN "commit" ELSE "idle"
    /\ UNCHANGED <<tasks, scanState, companies, jobs, scanLogs, metrics,
                   background_tasks, trigger, now>>

\* variant: a stop that returns without resetting the status
stop_scan_commit_skipped ==
    /\ Responded
    /\ stop = "commit"
    /\ stop' = "idle"
    /\ UNCHANGED <<tasks, scanState, companies, jobs, scanLogs, metrics,
                   background_tasks, trigger, now>>

\* stop_scan, lines 73-76: commit status = idle and return
stop_scan_commit ==
    /\ Responded
    /\ stop = "commit"
    /\ scanState' = [scanState EXCEPT !.status = "idle"]
    /\ stop' = "idle"
    /\ UNCHANGED <<tasks, companies, jobs, scanLogs, metrics,
                   background_tasks, trigger, now>>

\* ----------------------------------------------- api/scheduler/jobs.py

\* the cron trigger fires _scheduled_scan; add_job keeps the scheduler's
\* default of one running instance of the job
scheduled_scan ==
    /\ Responded
    /\ Len(tasks) < MaxInv
    /\ \A i \in Inv : tasks[i].origin = "scheduler" => tasks[i].pc \in Terminal
    /\ tasks' = Append(tasks, NewTask("scheduler"))
    /\ UNCHANGED <<scanState, companies, jobs, scanLogs, metrics,
                   background_tasks, stop, trigger, now>>

\* Time passes.  The clock is coarse and counts from the first invocation:
\* it advances between scans, so the timestamps one scan takes fall within
\* one tick.
Tick ==
    /\ Responded
    /\ now < MaxClock
    /\ tasks # <<>>
    /\ \A i \in Inv : tasks[i].pc \in Terminal
    /\ now' = now + 1
    /\ UNCHANGED <<tasks, scanState, companies, jobs, scanLogs, metrics,
                   background_tasks, stop, trigger>>

Next ==
    \/ \E i \in Inv : run_full_scan_guard(i) /\ UNCHANGED helperVars
    \/ \E i \in Inv : run_full_scan_refused(i) /\ UNCHANGED helperVars
    \/ \E i \in Inv : run_full_scan_reset_read(i) /\ UNCHANGED helperVars
    \/ \E i \in Inv : run_full_scan_reset_commit(i) /\ UNCHANGED helperVars
    \/ \E i \in Inv : run_full_scan_enumerate(i) /\ UNCHANGED helperVars
    \/ \E i \in Inv : process_company_scrape(i) /\ UNCHANGED helperVars
    \/ \E i \in Inv : process_job_lookup(i) /\ UNCHANGED helperVars
    \/ \E i \in Inv : process_job_insert(i) /\ UNCHANGED helperVars
    \/ \E i \in Inv : process_job_notify(i) /\ UNCHANGED helperVars
    \/ \E i \in Inv : process_job_notified(i) /\ UNCHANGED helperVars
    \/ \E i \in Inv : process_company_update(i) /\ UNCHANGED helperVars
    \/ \E i \in Inv : process_company_failed(i) /\ UNCHANGED helperVars
    \/ \E i \in Inv : run_full_scan_complete(i) /\ UNCHANGED helperVars
    \/ \E i \in Inv : run_full_scan_log(i) /\ UNCHANGED helperVars
    \/ \E i \in Inv : run_full_scan_return(i) /\ UNCHANGED helperVars
    \/ \E i \in Inv : cancel_delivered(i) /\ UNCHANGED helperVars
    \/ \E i \in Inv : task_done_callback(i) /\ UNCHANGED helperVars
    \/ trigger_scan /\ UNCHANGED helperVars
    \/ trigger_scan_return /\ UNCHANGED helperVars
    \/ stop_scan_cancel /\ UNCHANGED helperVars
    \/ stop_scan_read /\ UNCHANGED helperVars
    \/ stop_scan_commit /\ UNCHANGED helperVars
    \/ scheduled_scan /\ UNCHANGED helperVars
    \/ Tick /\ UNCHANGED helperVars

Spec == Init /\ [][Next]_vars

\* One scan over two companies: the first request or firing starts the only
\* invocation, which the guard admits; later requests arrive while the scan
\* state says running.
first_trigger ==
    /\ tasks = <<>> \/ is_scan_running(scanState)
    /\ trigger_scan

first_scheduled ==
    /\ tasks = <<>>
    /\ scheduled_scan

NextOne ==
    \/ \E i \in Inv : run_full_scan_guard(i) /\ UNCHANGED helperVars
    \/ \E i \in Inv : run_full_scan_reset_read(i) /\ UNCHANGED helperVars
    \/ \E i \in Inv : run_full_scan_reset_commit(i) /\ UNCHANGED helperVars
    \/ \E i \in Inv : run_full_scan_enumerate(i) /\ UNCHANGED helperVars
    \/ \E i \in Inv : process_company_scrape(i) /\ UNCHANGED helperVars
    \/ \E i \in Inv : process_job_lookup(i) /\ UNCHANGED helperVars
    \/ \E i \in Inv : process_job_insert(i) /\ UNCHANGED helperVars
    \/ \E i \in Inv : process_job_notify(i) /\ UNCHANGED helperVars
    \/ \E i \in Inv : process_job_notified(i) /\ UNCHANGED helperVars
    \/ \E i \in Inv : process_company_update(i) /\ UNCHANGED helperVars
    \/ \E i \in Inv : process_company_failed(i) /\ UNCHANGED helperVars
    \/ \E i \in Inv : run_full_scan_complete(i) /\ UNCHANGED helperVars
    \/ \E i \in Inv : run_full_scan_log(i) /\ UNCHANGED helperVars
    \/ \E i \in Inv : run_full_scan_return(i) /\ UNCHANGED helperVars
    \/ \E i \in Inv : cancel_delivered(i) /\ UNCHANGED helperVars
    \/ \E i \in Inv : task_done_callback(i) /\ UNCHANGED helperVars
    \/ first_trigger /\ UNCHANGED helperVars
    \/ trigger_scan_return /\ UNCHANGED helperVars
    \/ stop_scan_cancel /\ UNCHANGED helperVars
    \/ stop_scan_read /\ UNCHANGED helperVars
    \/ stop_scan_commit /\ UNCHANGED helperVars
    \/ first_scheduled /\ UNCHANGED helperVars
    \/ Tick /\ UNCHANGED helperVars

SpecOne == InitOne /\ [][NextOne]_vars

\* ------------------------------------------------------------- properties

\* the persisted status, read off the row itself
StatusIs(status) == scanState.exists /\ scanState.status = status

\* invocation i takes a step of its own that is not the delivery of a
\* cancellation: it moves, or stays at the posting loop's head with the next
\* posting
Steps(i) ==
    /\ i \in Inv
    /\ ~tasks[i].cancel
    /\ tasks'[i].pc # tasks[i].pc \/ tasks'[i].ji # tasks[i].ji

\* C1: at no time are two run_full_scan invocations both past the singleton
\* guard and before their completion step.
C1_OneActiveScan ==
    \A i, j \in Inv :
        tasks[i].pc \in ActivePcs /\ tasks[j].pc \in ActivePcs => i = j

\* C2: an invocation that passes the guard's check while the persisted
\* status is running returns the current status dict and leaves the
\* ScanState row, the Company, Job and ScanLog rows and the scan metrics
\* as they are.
C2_RefusedIsNoOp ==
    [][\A i \in Inv :
         /\ (Steps(i) /\ tasks[i].pc = "guard" /\ StatusIs("running")) =>
                /\ tasks'[i].pc = "refused"
                /\ UNCHANGED <<scanState, companies, jobs, scanLogs, metrics>>
         /\ (Steps(i) /\ tasks[i].pc = "refused") =>
                /\ tasks'[i].pc = "noop"
                /\ tasks'[i].result = <<get_scan_status(scanState)>>
                /\ UNCHANGED <<scanState, companies, jobs, scanLogs, metrics>>]_vars

C2_Refused ==
    \E i \in Inv :
        /\ tasks[i].pc = "noop"
        /\ StatusIs("running")
        /\ tasks[i].result = <<get_scan_status(scanState)>>
        /\ metrics.scans_total = 1

\* C3: a scan that an exception ended has no enumerated company left
\* unprocessed: a failure while one company is processed never keeps the
\* remaining companies from being processed.
C3_RemainingCompaniesProcessed ==
    \A i \in Inv :
        tasks[i].pc = "aborted" => tasks[i].ci >= Len(tasks[i].companies)

\* C4: a scan that entered its company loop (it has set the status to
\* running) and was not cancelled does not stop executing before it has set
\* the status to completed.
C4_RunningEndsCompleted ==
    \A i \in Inv : tasks[i].pc = "aborted" => tasks[i].ci = 0

\* no two rows of the jobs table have the same url
UniqueUrls(rows) ==
    \A a, b \in 1..Len(rows) : rows[a].url = rows[b].url => a = b

\* C5: no two persisted Job rows ever have the same url, and a posting
\* whose url is already persisted, once processed, has bumped that row's
\* last_seen to the time of processing and inserted no row.
C5_UrlUnique ==
    [][/\ UniqueUrls(jobs')
       /\ \A i \in Inv :
            (/\ Steps(i)
             /\ tasks[i].pc = "job_lookup"
             /\ tasks'[i].pc \notin {"handler", "aborted"}
             /\ \E k \in 1..Len(jobs) : jobs[k].url = tasks'[i].url) =>
                \E k \in 1..Len(jobs) :
                    /\ jobs[k].url = tasks'[i].url
                    /\ jobs' = [jobs EXCEPT ![k].last_seen = now]]_vars

C5_SeenAgain ==
    /\ Len(jobs) = 1
    /\ jobs[1].last_seen > jobs[1].first_seen
    /\ ~jobs[1].notified

\* C6: the jobs_new of every ScanLog row equals the number of Job rows the
\* scan of that row inserted.
C6_JobsNewCountsInserts ==
    \A n \in 1..Len(scanLogs) :
        scanLogs[n].jobs_new =
            Cardinality({k \in 1..Len(jobs) : jobs[k].scan = scanLogs[n].id})

\* C7: once a stop request has returned, no invocation that was in progress
\* when it was made goes on to scrape a company or to write ScanState.
C7_StopStopsEveryScan ==
    [][\A i \in Inv :
         (/\ stop = "idle"
          /\ tasks[i].stopped
          /\ tasks'[i] # tasks[i]
          /\ tasks'[i].pc # "cancelled") =>
              /\ tasks[i].pc # "scrape"
              /\ scanState' = scanState]_vars

\* C8: a stop request that finds the persisted status running at its check
\* has set it to idle, and nothing else of the row, when it returns, so the
\* singleton guard admits the next invocation; one that finds no row, idle
\* or completed returns with the row unchanged.
C8_StopResetsRunning ==
    [][/\ (stop = "read" /\ stop' = "commit") => StatusIs("running")
       /\ (stop = "read" /\ stop' = "idle") =>
              ~StatusIs("running") /\ scanState' = scanState
       /\ (stop = "commit" /\ stop' = "idle") =>
              /\ scanState' = [scanState EXCEPT !.status = "idle"]
              /\ ~is_scan_running(scanState')]_vars

C8_StopReset == stop = "idle" /\ StatusIs("idle")

C10_TriggerResponse ==
    [][(trigger = None /\ trigger' # None) =>
         IF StatusIs("running")
         THEN /\ trigger' = "running"
              /\ UNCHANGED <<tasks, background_tasks>>
         ELSE /\ trigger' = "started"
              /\ tasks' = Append(tasks, NewTask("trigger"))
              /\ background_tasks' = background_tasks \cup {Len(tasks')}]_vars

C10_RefusedTrigger ==
    /\ trigger = "running"
    /\ StatusIs("running")
    /\ Len(tasks) = 1

\* the status a reader of the row sees: get_scan_status reports idle when
\* there is no row
StatusOf(st) == IF st.exists THEN st.status ELSE "idle"

\* C11: the status is always idle, running or completed, and every change
\* of it is idle to running, completed to running, running to completed
\* (by a scan at its completion step) or running to idle (by stop).
C11_StatusTransitions ==
    [][/\ StatusOf(scanState') \in {"idle", "running", "completed"}
       /\ StatusOf(scanState') # StatusOf(scanState) =>
            \/ /\ StatusOf(scanState) \in {"idle", "completed"}
               /\ StatusOf(scanState') = "running"
            \/ /\ StatusOf(scanState) = "running"
               /\ StatusOf(scanState') = "completed"
               /\ \E i \in Inv : tasks[i].pc = "complete" /\ tasks'[i].pc = "log"
            \/ /\ StatusOf(scanState) = "running"
               /\ StatusOf(scanState') = "idle"
               /\ stop = "commit" /\ stop' = "idle"]_vars

\* C20: the notifier is called only for the row the scan has just inserted,
\* a row's notified flag is set exactly when the notifier returned success
\* for it, and it is set by nothing else.
C20_NotifiedIffSent ==
    [][/\ \A i \in Inv :
            /\ (tasks[i].pc # "notify" /\ tasks'[i].pc = "notify") =>
                   /\ jobs' = Append(jobs, jobs'[Len(jobs')])
                   /\ tasks'[i].new_job = Len(jobs')
                   /\ jobs'[Len(jobs')].scan = i
            /\ (tasks[i].pc = "notified" /\ tasks'[i].pc # "notified") =>
                   jobs'[tasks[i].new_job].notified
       /\ \A k \in 1..Len(jobs) :
            jobs'[k].notified # jobs[k].notified =>
                /\ jobs'[k].notified
                /\ \E i \in Inv : tasks[i].pc = "notified" /\ tasks[i].new_job = k]_vars

\* =====================================================================
\* retry_async (api/utils/retry.py)
\* =====================================================================
MaxAttempts == 3     \* largest `attempts` argument of a retry_async call
MaxBaseDelay == 2    \* largest `base_delay` argument, in units of 0.5 s

\* What one invocation of func can raise.
Raised == {"ScrapeError", "HTTPError", "ValueError"}

\* The tuples of exception classes passed as `exceptions`: the one of
\* _fetch_json and the one of scrape_jobs_with_descriptions
\* (PlaywrightTimeoutError is a PlaywrightError).
ExceptionTuples ==
    {{"HTTPError", "TimeoutError"},
     {"PlaywrightError", "TimeoutError", "ScrapeError", "HTTPError"}}

\* `except exceptions as exc`, variant: a bare `except Exception`.
except_matches_any(exc, exceptions) == exc \in Raised

\* `except exceptions as exc`: the clause takes exc when its class is one of
\* the tuple.
except_matches(exc, exceptions) == exc \in exceptions

\* asyncio.sleep argument, variant: a constant delay.
backoff_constant(base_delay, attempt) == base_delay

\* asyncio.sleep(base_delay * attempt)
backoff(base_delay, attempt) == base_delay * attempt

\* The state of a retry_async call at its first `await func()`.
retry_async(attempts, base_delay, exceptions) ==
    [pc |-> "call", attempts |-> attempts, base_delay |-> base_delay,
     exceptions |-> exceptions, attempt |-> 1, last_exc |-> None,
     log |-> <<>>, out |-> None]

\* `return await func()` and the except clause.  An invocation either
\* returns a value or raises; both are tagged with the attempt that made
\* them, so that two results of the same kind are told apart.
retry_call ==
    /\ retry.pc = "call"
    /\ \E r \in {"value"} \cup Raised :
         LET res == [kind |-> r, attempt |-> retry.attempt]
             logged == Append(retry.log, [ev |-> "call", res |-> res])
         IN  IF r = "value"
             THEN retry' = [retry EXCEPT !.pc = "returned", !.log = logged,
                                         !.out = res]
             ELSE IF except_matches(r, retry.exceptions)
             THEN IF retry.attempt = retry.attempts
                  THEN \* break; raise last_exc
                       retry' = [retry EXCEPT !.pc = "raised", !.log = logged,
                                              !.last_exc = res, !.out = res]
                  ELSE retry' = [retry EXCEPT !.pc = "sleep", !.log = logged,
                                              !.last_exc = res]
             ELSE retry' = [retry EXCEPT !.pc = "raised", !.log = logged,
                                         !.out = res]

\* `await asyncio.sleep(base_delay * attempt)` and the next turn of the loop.
retry_sleep ==
    /\ retry.pc = "sleep"
    /\ retry' = [retry EXCEPT
                   !.pc = "call",
                   !.log = Append(@, [ev |-> "sleep",
                                      delay |-> backoff(retry.base_delay, retry.attempt)]),
                   !.attempt = @ + 1]

InitRetry ==
    /\ Start({"c1"})
    /\ \E a \in 1..MaxAttempts, d \in 1..MaxBaseDelay, x \in ExceptionTuples :
         retry = retry_async(a, d, x)
    /\ fetch = Off /\ browser = Off /\ scrape = Off /\ hours = Off /\ posting = Off /\ match = Off
    /\ seen = Off
    /\ workday = Off
    /\ nav = Off
    /\ limiter = Off
    /\ json = Off

NextRetry ==
    \/ retry_call /\ UNCHANGED <<scanVars, fetch, browser, scrape, hours, posting, match, seen, workday, nav, limiter, json>>
    \/ retry_sleep /\ UNCHANGED <<scanVars, fetch, browser, scrape, hours, posting, match, seen, workday, nav, limiter, json>>

SpecRetry == InitRetry /\ [][NextRetry]_vars

RetryEnded == retry.pc \in {"returned", "raised"}
CallsOf(log) == {k \in 1..Len(log) : log[k].ev = "call"}

\* C12: func is invoked at most `attempts` times; a call that returns gives
\* the value of the first successful invocation, which is the last
\* invocation made; when every invocation raised a classified error, func
\* was invoked exactly `attempts` times, the k-th failure was followed by a
\* sleep of k * base_delay for each k < attempts, nothing followed the last
\* failure, and the error raised is the one of the last invocation.
C12_RetryContract ==
    retry.pc # "off" =>
    LET log == retry.log
        classified(k) == /\ log[k].res.kind # "value"
                         /\ log[k].res.kind \in retry.exceptions
    IN  /\ Cardinality(CallsOf(log)) <= retry.attempts
        /\ \A k \in CallsOf(log) :
             log[k].res.kind = "value" =>
                 /\ k = Len(log)
                 /\ retry.pc = "returned"
                 /\ retry.out = log[k].res
        /\ retry.pc = "returned" =>
               /\ log # <<>>
               /\ log[Len(log)].ev = "call"
               /\ log[Len(log)].res.kind = "value"
        /\ (RetryEnded /\ \A k \in CallsOf(log) : classified(k)) =>
               /\ Len(log) = 2 * retry.attempts - 1
               /\ \A k \in 1..retry.attempts :
                    /\ log[2 * k - 1].ev = "call"
                    /\ log[2 * k - 1].res.attempt = k
               /\ \A k \in 1..(retry.attempts - 1) :
                    /\ log[2 * k].ev = "sleep"
                    /\ log[2 * k].delay = k * retry.base_delay
               /\ retry.pc = "raised"
               /\ retry.out = log[Len(log)].res

\* All three invocations raised a classified error and the call has raised.
C12_Exhausted ==
    /\ retry.pc = "raised"
    /\ retry.attempts = MaxAttempts
    /\ retry.base_delay = MaxBaseDelay
    /\ Cardinality(CallsOf(retry.log)) = MaxAttempts
    /\ retry.out.kind \in retry.exceptions

\* C13: an error outside the classified set ends the call at once: the
\* invocation that raised it is the last thing the call did (no sleep, no
\* further invocation) and the call raises that very error.
C13_UnclassifiedPropagates ==
    retry.pc # "off" =>
    \A k \in CallsOf(retry.log) :
        (/\ retry.log[k].res.kind # "value"
         /\ retry.log[k].res.kind \notin retry.exceptions) =>
            /\ k = Len(retry.log)
            /\ retry.pc = "raised"
            /\ retry.out = retry.log[k].res

\* An unclassified error on the second attempt, after one backoff sleep; the
\* error is one that another caller's tuple would have retried.
C13_UnclassifiedOnRetry ==
    /\ retry.pc = "raised"
    /\ retry.attempts = MaxAttempts
    /\ Len(retry.log) = 3
    /\ retry.out.kind = "ScrapeError"
    /\ retry.out.kind \notin retry.exceptions

\* =====================================================================
\* _fetch_descriptions_for_links (api/services/scraper.py), called with a
\* browser context
\* =====================================================================
MaxLinks == 3        \* links handed to one call
MaxPages == 2        \* largest settings.MAX_CONCURRENT_PAGES

\* What an await of a page operation can raise: one error the except
\* clause of fetch takes, one it does not.
PageErrors == {"PlaywrightError", "ValueError"}

\* The awaits of fetch that run inside `async with semaphore`.
InSemaphore == {"rate_limit", "new_page", "goto", "evaluate"}

\* Semaphore.acquire proceeds, variant: a semaphore that admits every caller.
semaphore_free_always(value) == TRUE

\* Semaphore.acquire proceeds when the internal counter is positive.
semaphore_free(value) == value > 0

\* gather resumes its caller, variant: return_exceptions=False, where the
\* first failed awaitable resumes the caller.
gather_ready_first_exception(st) ==
    \/ \A i \in 1..Len(st) : st[i].pc = "done"
    \/ \E i \in 1..Len(st) : st[i].pc = "done" /\ st[i].res # "dict"

\* asyncio.gather(*tasks, return_exceptions=True) resumes its caller when
\* every awaitable has finished.
gather_ready(st) == \A i \in 1..Len(st) : st[i].pc = "done"

\* The loop over enumerate(results): the dict results, in the order of the
\* awaitables; exceptions and unfinished slots are skipped.
RECURSIVE successful_results(_, _)
successful_results(st, i) ==
    IF i > Len(st) THEN <<>>
    ELSE IF st[i].pc = "done" /\ st[i].res = "dict"
         THEN <<i>> \o successful_results(st, i + 1)
         ELSE successful_results(st, i + 1)

\* The call before its first statement.
fetch_descriptions_for_links(n, pages) ==
    [pc |-> "start", n |-> n, pages |-> pages, semaphore |-> pages,
     st |-> <<>>, out |-> None]

\* `if not links: return []`, else the semaphore and the fetch coroutines
\* handed to gather.
fetch_start ==
    /\ fetch.pc = "start"
    /\ IF fetch.n = 0
       THEN fetch' = [fetch EXCEPT !.pc = "returned", !.out = <<>>]
       ELSE fetch' = [fetch EXCEPT
                        !.pc = "gather",
                        !.st = [i \in 1..fetch.n |->
                                  [pc |-> "wait", job_page |-> FALSE, res |-> None]]]

\* `async with semaphore:` entered.
fetch_acquire(i) ==
    /\ fetch.pc = "gather"
    /\ fetch.st[i].pc = "wait"
    /\ semaphore_free(fetch.semaphore)
    /\ fetch' = [fetch EXCEPT !.semaphore = @ - 1, !.st[i].pc = "rate_limit"]

\* `await _rate_limit()` is over.
fetch_rate_limit(i) ==
    /\ fetch.pc = "gather"
    /\ fetch.st[i].pc = "rate_limit"
    /\ fetch' = [fetch EXCEPT !.st[i].pc = "new_page"]

\* Leaving `async with semaphore` with result res (a dict, an exception the
\* except clause returns, or one it lets through): the semaphore is
\* released, then `finally` closes the page if there is one.
LeaveSemaphore(i, res, job_page) ==
    fetch' = [fetch EXCEPT
                !.semaphore = @ + 1,
                !.st[i] = [pc |-> IF job_page THEN "close" ELSE "done",
                           job_page |-> job_page, res |-> res]]

\* `job_page = await context.new_page()`
fetch_new_page(i) ==
    /\ fetch.pc = "gather"
    /\ fetch.st[i].pc = "new_page"
    /\ \/ fetch' = [fetch EXCEPT !.st[i].pc = "goto", !.st[i].job_page = TRUE]
       \/ \E e \in PageErrors : LeaveSemaphore(i, e, FALSE)

\* `await job_page.goto(...)`
fetch_goto(i) ==
    /\ fetch.pc = "gather"
    /\ fetch.st[i].pc = "goto"
    /\ \/ fetch' = [fetch EXCEPT !.st[i].pc = "evaluate"]
       \/ \E e \in PageErrors : LeaveSemaphore(i, e, TRUE)

\* `text = await job_page.evaluate(...)` and the return of the dict.
fetch_evaluate(i) ==
    /\ fetch.pc = "gather"
    /\ fetch.st[i].pc = "evaluate"
    /\ \/ LeaveSemaphore(i, "dict", TRUE)
       \/ \E e \in PageErrors : LeaveSemaphore(i, e, TRUE)

\* `await job_page.close()` in the finally clause; when it raises, that
\* exception is the outcome of the coroutine.
fetch_close(i) ==
    /\ fetch.pc = "gather"
    /\ fetch.st[i].pc = "close"
    /\ \/ fetch' = [fetch EXCEPT !.st[i].pc = "done"]
       \/ fetch' = [fetch EXCEPT !.st[i].pc = "done",
                                 !.st[i].res = "PlaywrightError"]

\* gather resumes the call, which collects and returns.  A caller resumed
\* by an exception raises it instead.
fetch_return ==
    /\ fetch.pc = "gather"
    /\ gather_ready(fetch.st)
    /\ IF \A i \in 1..fetch.n : fetch.st[i].pc = "done"
       THEN fetch' = [fetch EXCEPT !.pc = "returned",
                                   !.out = successful_results(fetch.st, 1)]
       ELSE fetch' = [fetch EXCEPT !.pc = "raised"]

InitFetch ==
    /\ Start({"c1"})
    /\ \E n \in 0..MaxLinks, c \in 1..MaxPages :
         fetch = fetch_descriptions_for_links(n, c)
    /\ retry = Off /\ browser = Off /\ scrape = Off /\ hours = Off /\ posting = Off /\ match = Off
    /\ seen = Off
    /\ workday = Off
    /\ nav = Off
    /\ limiter = Off
    /\ json = Off

NextFetch ==
    \/ fetch_start /\ UNCHANGED <<scanVars, retry, browser, scrape, hours, posting, match, seen, workday, nav, limiter, json>>
    \/ \E i \in 1..fetch.n : fetch_acquire(i) /\ UNCHANGED <<scanVars, retry, browser, scrape, hours, posting, match, seen, workday, nav, limiter, json>>
    \/ \E i \in 1..fetch.n : fetch_rate_limit(i) /\ UNCHANGED <<scanVars, retry, browser, scrape, hours, posting, match, seen, workday, nav, limiter, json>>
    \/ \E i \in 1..fetch.n : fetch_new_page(i) /\ UNCHANGED <<scanVars, retry, browser, scrape, hours, posting, match, seen, workday, nav, limiter, json>>
    \/ \E i \in 1..fetch.n : fetch_goto(i) /\ UNCHANGED <<scanVars, retry, browser, scrape, hours, posting, match, seen, workday, nav, limiter, json>>
    \/ \E i \in 1..fetch.n : fetch_evaluate(i) /\ UNCHANGED <<scanVars, retry, browser, scrape, hours, posting, match, seen, workday, nav, limiter, json>>
    \/ \E i \in 1..fetch.n : fetch_close(i) /\ UNCHANGED <<scanVars, retry, browser, scrape, hours, posting, match, seen, workday, nav, limiter, json>>
    \/ fetch_return /\ UNCHANGED <<scanVars, retry, browser, scrape, hours, posting, match, seen, workday, nav, limiter, json>>

SpecFetch == InitFetch /\ [][NextFetch]_vars

InSection == {i \in 1..Len(fetch.st) : fetch.st[i].pc \in InSemaphore}
Succeeded == {i \in 1..Len(fetch.st) : fetch.st[i].pc = "done" /\ fetch.st[i].res = "dict"}

\* C14: at no moment of a call are more than MAX_CONCURRENT_PAGES of its
\* per-link fetches between entering and leaving the semaphore (rate limit,
\* open page, navigate, extract).
C14_AtMostCapacityInSection ==
    fetch.pc # "off" => Cardinality(InSection) <= fetch.pages

\* More links than the capacity, the section full and a fetch kept waiting.
C14_SectionFull ==
    /\ fetch.pc = "gather"
    /\ fetch.n > fetch.pages
    /\ Cardinality(InSection) = fetch.pages
    /\ \E i \in 1..fetch.n : fetch.st[i].pc = "wait"

\* C15: the call never raises because of a fetch; once it has returned,
\* every per-link fetch has finished, and the value returned lists exactly
\* the links whose fetch produced a posting, each once, in input order.
C15_AllAwaitedInOrder ==
    /\ fetch.pc # "raised"
    /\ fetch.pc = "returned" =>
         /\ \A i \in 1..Len(fetch.st) : fetch.st[i].pc = "done"
         /\ {fetch.out[k] : k \in 1..Len(fetch.out)} = Succeeded
         /\ \A k \in 1..(Len(fetch.out) - 1) : fetch.out[k] < fetch.out[k + 1]

\* A link in the middle failed; the links around it were fetched and returned.
C15_FailureBetweenSuccesses ==
    /\ fetch.pc = "returned"
    /\ fetch.n = MaxLinks
    /\ fetch.st[1].res = "dict"
    /\ fetch.st[2].res # "dict"
    /\ fetch.st[MaxLinks].res = "dict"
    /\ Len(fetch.out) = MaxLinks - 1

\* =====================================================================
\* _browser_context (api/services/scraper.py): one scope, from
\* `async with _browser_context() as context` to its exit
\* =====================================================================
MaxCancels == 2      \* task.cancel() calls that reach the task during one scope

\* What an await on the Playwright API raises when it fails.
PlaywrightErrors == {"PlaywrightError", "TimeoutError"}

\* The functions that open a scope around a fan-out of description
\* fetches: _generic_scrape, whose body first loads the careers page, and
\* _fetch_descriptions_for_links called without a context, whose body is
\* the fan-out alone.
Callers == {"_generic_scrape", "_fetch_descriptions_for_links"}

\* The scope before `async with async_playwright() as p`.
browser_context(caller) ==
    [caller |-> caller,
     pc |-> "playwright", browser |-> "none", context |-> "none",
     exc |-> None, must_cancel |-> FALSE, cancels |-> 0]

\* The outcomes of the await the task is suspended on: CancelledError when
\* a cancellation is pending, else completion (None) or a Playwright error.
AwaitOutcomes ==
    IF browser.must_cancel THEN {"CancelledError"} ELSE {None} \cup PlaywrightErrors

\* task.cancel() on the task that runs the scope (stop_scan, shutdown).
browser_cancel ==
    /\ browser.pc \notin {"off", "exited"}
    /\ ~browser.must_cancel
    /\ browser.cancels < MaxCancels
    /\ browser' = [browser EXCEPT !.must_cancel = TRUE, !.cancels = @ + 1]

\* `async with async_playwright() as p`: the driver is started.
browser_playwright ==
    /\ browser.pc = "playwright"
    /\ \E r \in AwaitOutcomes :
         browser' = [browser EXCEPT
                       !.must_cancel = FALSE,
                       !.pc = IF r = None THEN "launch" ELSE "exited",
                       !.exc = r]

\* `browser = await p.chromium.launch(headless=True)`
browser_launch ==
    /\ browser.pc = "launch"
    /\ \E r \in AwaitOutcomes :
         browser' = [browser EXCEPT
                       !.must_cancel = FALSE,
                       !.pc = IF r = None THEN "new_context" ELSE "playwright_exit",
                       !.browser = IF r = None THEN "open" ELSE @,
                       !.exc = r]

\* `context = await browser.new_context()`; on success the context is
\* yielded to the body.
browser_new_context ==
    /\ browser.pc = "new_context"
    /\ \E r \in AwaitOutcomes :
         browser' = [browser EXCEPT
                       !.must_cancel = FALSE,
                       !.pc = IF r # None THEN "playwright_exit"
                              ELSE IF browser.caller = "_generic_scrape" THEN "yield"
                              ELSE "fetch",
                       !.context = IF r = None THEN "open" ELSE @,
                       !.exc = r]

\* The body of _generic_scrape up to `await page.close()`: the careers page
\* is opened, loaded and searched for links.  An exception takes control to
\* `finally`.
browser_yield ==
    /\ browser.pc = "yield"
    /\ \E r \in AwaitOutcomes :
         browser' = [browser EXCEPT
                       !.must_cancel = FALSE,
                       !.pc = IF r = None THEN "fetch" ELSE "context_close",
                       !.exc = r]

\* `return await _fetch_descriptions_for_links(links, context=context)`:
\* the body returns, or is cancelled; control enters `finally`.
browser_fetch ==
    /\ browser.pc = "fetch"
    /\ \E r \in (IF browser.must_cancel THEN {"CancelledError"} ELSE {None}) :
         browser' = [browser EXCEPT !.must_cancel = FALSE,
                                    !.pc = "context_close", !.exc = r]

\* `await context.close()` in the finally clause; when it raises, the rest
\* of the clause is skipped.
browser_context_close ==
    /\ browser.pc = "context_close"
    /\ \E r \in AwaitOutcomes :
         browser' = [browser EXCEPT
                       !.must_cancel = FALSE,
                       !.pc = IF r = None THEN "browser_close" ELSE "playwright_exit",
                       !.context = IF r = None THEN "closed" ELSE @,
                       !.exc = IF r = None THEN @ ELSE r]

\* `await browser.close()` in the finally clause.
browser_close ==
    /\ browser.pc = "browser_close"
    /\ \E r \in AwaitOutcomes :
         browser' = [browser EXCEPT
                       !.must_cancel = FALSE,
                       !.pc = "playwright_exit",
                       !.browser = IF r = None THEN "closed" ELSE @,
                       !.exc = IF r = None THEN @ ELSE r]

\* Exit of `async with async_playwright()`, variant: an exit that leaves
\* the browsers of the driver alone.
playwright_stop_detached(b) == b

\* Exit of `async with async_playwright()`: the driver process is stopped,
\* and with it every browser it launched and the contexts of that browser.
playwright_stop(b) ==
    [b EXCEPT !.browser = IF @ = "open" THEN "stopped" ELSE @,
              !.context = IF @ = "open" THEN "stopped" ELSE @]

\* The exception, if any, leaves the `async with async_playwright()` block.
browser_playwright_exit ==
    /\ browser.pc = "playwright_exit"
    /\ browser' = [playwright_stop(browser) EXCEPT
                     !.pc = "exited",
                     !.exc = IF browser.must_cancel THEN "CancelledError" ELSE @,
                     !.must_cancel = FALSE]

InitBrowser ==
    /\ Start({"c1"})
    /\ \E caller \in Callers : browser = browser_context(caller)
    /\ retry = Off /\ fetch = Off /\ scrape = Off /\ hours = Off /\ posting = Off /\ match = Off
    /\ seen = Off
    /\ workday = Off
    /\ nav = Off
    /\ limiter = Off
    /\ json = Off

NextBrowser ==
    \/ browser_cancel /\ UNCHANGED <<scanVars, retry, fetch, scrape, hours, posting, match, seen, workday, nav, limiter, json>>
    \/ browser_playwright /\ UNCHANGED <<scanVars, retry, fetch, scrape, hours, posting, match, seen, workday, nav, limiter, json>>
    \/ browser_launch /\ UNCHANGED <<scanVars, retry, fetch, scrape, hours, posting, match, seen, workday, nav, limiter, json>>
    \/ browser_new_context /\ UNCHANGED <<scanVars, retry, fetch, scrape, hours, posting, match, seen, workday, nav, limiter, json>>
    \/ browser_yield /\ UNCHANGED <<scanVars, retry, fetch, scrape, hours, posting, match, seen, workday, nav, limiter, json>>
    \/ browser_fetch /\ UNCHANGED <<scanVars, retry, fetch, scrape, hours, posting, match, seen, workday, nav, limiter, json>>
    \/ browser_context_close /\ UNCHANGED <<scanVars, retry, fetch, scrape, hours, posting, match, seen, workday, nav, limiter, json>>
    \/ browser_close /\ UNCHANGED <<scanVars, retry, fetch, scrape, hours, posting, match, seen, workday, nav, limiter, json>>
    \/ browser_playwright_exit /\ UNCHANGED <<scanVars, retry, fetch, scrape, hours, posting, match, seen, workday, nav, limiter, json>>

SpecBrowser == InitBrowser /\ [][NextBrowser]_vars

MAX_JOBS_PER_COMPANY == 20
\* attempts of retry_async when the caller passes none
DefaultAttempts == 3
MaxExtra == 1        \* postings a source lists beyond MAX_JOBS_PER_COMPANY

\* detect_ats results; None selects the generic renderer.
AtsKinds == {"greenhouse", "lever", "workday", None}

\* The exceptions scrape_jobs_with_descriptions hands to retry_async.
ScrapeExceptions ==
    {"PlaywrightError", "TimeoutError", "ScrapeError", "HTTPError"}

\* How many postings a source lists: none, one, exactly the cap, more.
RawCounts == {0, 1, MAX_JOBS_PER_COMPANY, MAX_JOBS_PER_COMPANY + MaxExtra}

\* list[:MAX_JOBS_PER_COMPANY], variant: the list is taken whole.
Truncate_none(n) == n

\* list[:MAX_JOBS_PER_COMPANY]
Truncate(n) == IF n > MAX_JOBS_PER_COMPANY THEN MAX_JOBS_PER_COMPANY ELSE n

\* The lengths a list of n entries can have after title_filter: all kept,
\* one dropped, none kept.
Filtered(n) == {n, IF n > 0 THEN n - 1 ELSE 0, 0}

\* The lengths _fetch_descriptions_for_links can return for n links: it
\* fetches links[:MAX_JOBS_PER_COMPANY] and keeps the fetches that succeeded
\* (all, all but one, none).
Fetched(n) == Filtered(Truncate(n))

\* The call at the first `await func()` of retry_async.
scrape_jobs_with_descriptions(ats) ==
    [pc |-> "run", ats |-> ats, attempt |-> 1, links |-> 0,
     log |-> <<>>, out |-> None, exc |-> None]

\* One more event of the current attempt.
Logged(stage, res) ==
    Append(scrape.log, [attempt |-> scrape.attempt, stage |-> stage, res |-> res])

\* _run returns jobs: retry_async and the call return them.
ScrapeReturn(stage, n) ==
    scrape' = [scrape EXCEPT !.pc = "returned", !.out = n,
                             !.log = Logged(stage, "jobs")]

\* _run raises exc: retry_async takes it when it is in the tuple and
\* attempts remain (then sleeps), raises it when none remain, and lets it
\* through otherwise; the call wraps what retry_async raised from the tuple
\* in ScrapeError.
ScrapeRaise(stage, exc) ==
    IF except_matches(exc, ScrapeExceptions)
    THEN IF scrape.attempt = DefaultAttempts
         THEN scrape' = [scrape EXCEPT !.pc = "raised", !.exc = "ScrapeError",
                                       !.log = Logged(stage, exc)]
         ELSE scrape' = [scrape EXCEPT !.pc = "sleep", !.log = Logged(stage, exc)]
    ELSE scrape' = [scrape EXCEPT !.pc = "raised", !.exc = exc,
                                  !.log = Logged(stage, exc)]

\* _run up to the end of the strategy detect_ats selected.
\* Greenhouse and Lever: the API call, the loop, jobs[:MAX], title_filter.
scrape_api ==
    /\ scrape.pc = "run"
    /\ scrape.ats \in {"greenhouse", "lever"}
    /\ \/ \E raw \in RawCounts : \E n \in Filtered(Truncate(raw)) :
            ScrapeReturn("ats", n)
       \/ \* except ScrapeError: return await _generic_scrape()
          scrape' = [scrape EXCEPT !.pc = "generic",
                                   !.log = Logged("ats", "ScrapeError")]
       \/ \* resp.json() or the loop raises on a malformed payload
          ScrapeRaise("ats", "ValueError")

\* Workday: _scrape_workday_links, links[:MAX], title_filter.
scrape_workday_links ==
    /\ scrape.pc = "run"
    /\ scrape.ats = "workday"
    /\ \/ \E raw \in RawCounts : \E n \in Filtered(Truncate(raw)) :
            scrape' = [scrape EXCEPT !.pc = "workday_fetch", !.links = n]
       \/ scrape' = [scrape EXCEPT !.pc = "generic",
                                   !.log = Logged("ats", "ScrapeError")]
       \/ ScrapeRaise("ats", "ValueError")

\* Workday: `return await _fetch_descriptions_for_links(links)`, which
\* opens its own browser scope when there are links; the scope can raise.
scrape_workday_fetch ==
    /\ scrape.pc = "workday_fetch"
    /\ \/ \E n \in Fetched(scrape.links) : ScrapeReturn("ats", n)
       \/ /\ scrape.links > 0
          /\ \E e \in PlaywrightErrors : ScrapeRaise("ats", e)

\* No ATS detected: _run is _generic_scrape.
scrape_no_ats ==
    /\ scrape.pc = "run"
    /\ scrape.ats = None
    /\ scrape' = [scrape EXCEPT !.pc = "generic"]

\* _generic_scrape: the page is rendered, the links extracted and filtered,
\* the descriptions fetched; any step on the browser can raise.
scrape_generic ==
    /\ scrape.pc = "generic"
    /\ \/ \E raw \in RawCounts : \E k \in Filtered(raw) : \E n \in Fetched(k) :
            ScrapeReturn("generic", n)
       \/ \E e \in PlaywrightErrors : ScrapeRaise("generic", e)

\* retry_async: the backoff sleep is over, _run is called again.
scrape_sleep ==
    /\ scrape.pc = "sleep"
    /\ scrape' = [scrape EXCEPT !.pc = "run", !.attempt = @ + 1, !.links = 0]

InitScrape ==
    /\ Start({"c1"})
    /\ \E ats \in AtsKinds : scrape = scrape_jobs_with_descriptions(ats)
    /\ retry = Off /\ fetch = Off /\ browser = Off /\ hours = Off /\ posting = Off /\ match = Off
    /\ seen = Off
    /\ workday = Off
    /\ nav = Off
    /\ limiter = Off
    /\ json = Off

NextScrape ==
    \/ scrape_api /\ UNCHANGED <<scanVars, retry, fetch, browser, hours, posting, match, seen, workday, nav, limiter, json>>
    \/ scrape_workday_links /\ UNCHANGED <<scanVars, retry, fetch, browser, hours, posting, match, seen, workday, nav, limiter, json>>
    \/ scrape_workday_fetch /\ UNCHANGED <<scanVars, retry, fetch, browser, hours, posting, match, seen, workday, nav, limiter, json>>
    \/ scrape_no_ats /\ UNCHANGED <<scanVars, retry, fetch, browser, hours, posting, match, seen, workday, nav, limiter, json>>
    \/ scrape_generic /\ UNCHANGED <<scanVars, retry, fetch, browser, hours, posting, match, seen, workday, nav, limiter, json>>
    \/ scrape_sleep /\ UNCHANGED <<scanVars, retry, fetch, browser, hours, posting, match, seen, workday, nav, limiter, json>>

SpecScrape == InitScrape /\ [][NextScrape]_vars

\* C17: whatever strategy produced them and on whatever attempt, the call
\* returns at most 20 postings.
C17_AtMostTwentyPostings ==
    scrape.pc = "returned" => scrape.out <= MAX_JOBS_PER_COMPANY

\* A full list of 20 returned by the generic renderer after the ATS
\* strategy failed, on a retry.
C17_CappedAfterFallback ==
    /\ scrape.pc = "returned"
    /\ scrape.out = MAX_JOBS_PER_COMPANY
    /\ scrape.attempt > 1
    /\ Len(scrape.log) >= 2
    /\ scrape.log[Len(scrape.log)].stage = "generic"
    /\ scrape.log[Len(scrape.log) - 1] =
           [attempt |-> scrape.attempt, stage |-> "ats", res |-> "ScrapeError"]

\* C18: a ScrapeError of the ATS strategy is followed, in the same attempt,
\* by a run of the generic renderer whose result is the result of the call;
\* and the call raises ScrapeError to the controller only when the generic
\* renderer has run and failed in the last attempt, never on a failure of
\* the ATS strategy alone.
C18_AtsFailureFallsBack ==
    scrape.pc # "off" =>
    LET log == scrape.log
    IN  /\ \A k \in 1..Len(log) :
             (log[k].stage = "ats" /\ log[k].res = "ScrapeError") =>
                 IF k = Len(log)
                 THEN scrape.pc = "generic" /\ scrape.attempt = log[k].attempt
                 ELSE /\ log[k + 1].stage = "generic"
                      /\ log[k + 1].attempt = log[k].attempt
                      /\ log[k + 1].res = "jobs" =>
                             scrape.pc = "returned" /\ k + 1 = Len(log)
        /\ (scrape.pc = "raised" /\ scrape.exc = "ScrapeError") =>
               /\ log[Len(log)].stage = "generic"
               /\ log[Len(log)].attempt = DefaultAttempts

\* =====================================================================
\* _parse_schedule_hours (api/scheduler/jobs.py)
\* =====================================================================
MaxEntries == 3      \* comma-separated entries of SCAN_SCHEDULE_HOURS

\* The entries hours_str.split(",") can yield: hours in range, hours out of
\* range, an entry with blanks around it, and entries int() rejects.
Entries == {"6", " 7 ", "23", "24", "-1", "x", ""}

\* The entries that int(h.strip()) accepts, with their values.
IntLiterals ==
    ("6" :> 6) @@ (" 7 " :> 7) @@ ("23" :> 23) @@ ("24" :> 24) @@ ("-1" :> -1)

\* int(h.strip()) raises ValueError: the entry is not an integer literal.
int_raises(h) == h \notin DOMAIN IntLiterals

\* int(h.strip()) for an entry it accepts
int(h) == IntLiterals[h]

Digits == <<"0", "1", "2", "3", "4", "5", "6", "7", "8", "9">>

\* str(h) for an hour h in 0..23
str(h) == IF h < 10 THEN Digits[h + 1] ELSE Digits[(h \div 10) + 1] \o Digits[(h % 10) + 1]

\* ",".join(str(h) for h in hs)
RECURSIVE join(_)
join(hs) ==
    IF hs = <<>> THEN ""
    ELSE IF Len(hs) = 1 THEN str(hs[1])
    ELSE str(hs[1]) \o "," \o join(Tail(hs))

\* The body of _parse_schedule_hours: the list comprehension raises
\* ValueError at the first entry int() rejects, and the except clause then
\* returns the default.
parse_schedule_hours(entries) ==
    IF \E k \in 1..Len(entries) : int_raises(entries[k])
    THEN "6,12,18"
    ELSE LET hs == [k \in 1..Len(entries) |-> int(entries[k])]
             valid_hours == SelectSeq(hs, LAMBDA h : 0 <= h /\ h <= 23)
         IN  IF valid_hours = <<>> THEN join(<<6, 12, 18>>) ELSE join(valid_hours)

\* start_scheduler calls the parser on settings.SCAN_SCHEDULE_HOURS.
parse_call ==
    /\ hours.pc = "call"
    /\ hours' = [hours EXCEPT !.pc = "returned",
                              !.out = parse_schedule_hours(hours.entries)]

InitHours ==
    /\ Start({"c1"})
    /\ \E n \in 1..MaxEntries : \E entries \in [1..n -> Entries] :
         hours = [pc |-> "call", entries |-> entries, out |-> None]
    /\ retry = Off /\ fetch = Off /\ browser = Off /\ scrape = Off /\ posting = Off /\ match = Off
    /\ seen = Off
    /\ workday = Off
    /\ nav = Off
    /\ limiter = Off
    /\ json = Off

NextHours ==
    \/ parse_call /\ UNCHANGED <<scanVars, retry, fetch, browser, scrape, posting, match, seen, workday, nav, limiter, json>>

SpecHours == InitHours /\ [][NextHours]_vars

\* An entry that is an integer in 0..23.
IsHour(h) == ~int_raises(h) /\ 0 <= int(h) /\ int(h) <= 23

\* The entries of the input that are hours, in input order, as integers.
RECURSIVE HoursOf(_)
HoursOf(entries) ==
    IF entries = <<>> THEN <<>>
    ELSE IF IsHour(Head(entries))
         THEN <<int(Head(entries))>> \o HoursOf(Tail(entries))
         ELSE HoursOf(Tail(entries))

\* C19: the parser returns the comma-joined entries of its input that are
\* integers in 0..23, in input order, every other entry being discarded,
\* and 6,12,18 when no entry is one.
C19_ValidEntriesKept ==
    hours.pc = "returned" =>
        hours.out = IF HoursOf(hours.entries) = <<>>
                    THEN "6,12,18"
                    ELSE join(HoursOf(hours.entries))

\* =====================================================================
\* _process_job for a posting that is not persisted yet and whose title is
\* a potential match (api/services/pipeline.py lines 160-213), with
\* api/services/salary.py and extract_job_info of api/services/llm.py.
\* Confidences are in hundredths; a nullable value is <<>> (null) or <<v>>.
\* =====================================================================
MIN_SALARY_CONFIDENCE == 60
\* the confidence extract_salary_from_text gives a range found in the text
JD_CONFIDENCE == 90
MaxSalary == 2       \* largest salary figure, in abstract units

Null == <<>>
Some(v) == <<v>>

\* Confidences a language-model reply can carry: below, at and above the
\* minimum, and outside 0..1.
Confidences == {-10, 0, MIN_SALARY_CONFIDENCE - 1, MIN_SALARY_CONFIDENCE,
                MIN_SALARY_CONFIDENCE + 1, 100, 150}

\* A JSON value of a reply, by type: an integer, a string, null.
JsonInt(v) == [type |-> "int", v |-> v]
JsonStr == [type |-> "str", v |-> 0]
JsonNull == [type |-> "null", v |-> 0]
SalaryFields == {JsonInt(v) : v \in 0..MaxSalary} \cup {JsonStr, JsonNull}
ConfidenceFields == {JsonInt(c) : c \in Confidences} \cup {JsonStr, JsonNull}

\* How a language-model call ends: retry_async gives up on a transport
\* error, the reply does not parse, or it parses.
LlmFailures == {"HTTPError", "TimeoutError"}

\* extract_salary_from_text: None, or the first range of the text whose
\* two figures are non-zero, with source jd.
SalaryFromText ==
    {Null} \cup {<<lo, hi, "jd", JD_CONFIDENCE>> : lo \in 1..MaxSalary, hi \in 1..MaxSalary}

\* estimate_salary_with_llm after a reply that parsed (lines 88-96).
estimate_salary(salary_min, salary_max, confidence) ==
    IF salary_min.type # "int" \/ salary_max.type # "int" THEN Null
    ELSE <<salary_min.v, salary_max.v, "ai",
           IF confidence.type = "int" THEN confidence.v ELSE 0>>

\* variant: a threshold that also rejects a confidence equal to the minimum
apply_confidence_threshold_strict(salary_tuple) ==
    IF salary_tuple = Null THEN Null
    ELSE IF salary_tuple[4] <= MIN_SALARY_CONFIDENCE THEN Null
    ELSE salary_tuple

\* apply_confidence_threshold (salary.py lines 99-107)
apply_confidence_threshold(salary_tuple) ==
    IF salary_tuple = Null THEN Null
    ELSE IF salary_tuple[4] < MIN_SALARY_CONFIDENCE THEN Null
    ELSE salary_tuple

\* variant: salary_estimated set for every job that has a salary
salary_estimated_any(salary_source) == salary_source # Null

\* salary_estimated = salary_source == "ai" if salary_source else False
salary_estimated(salary_source) ==
    IF salary_source # Null THEN salary_source = Some("ai") ELSE FALSE

\* lines 175-179 and 190-213: the salary columns of the Job built from the
\* gated tuple
NewJob(salary, extracted) ==
    LET salary_source == IF salary # Null THEN Some(salary[3]) ELSE Null
    IN  [salary_min |-> IF salary # Null THEN Some(salary[1]) ELSE Null,
         salary_max |-> IF salary # Null THEN Some(salary[2]) ELSE Null,
         salary_source |-> salary_source,
         salary_confidence |-> IF salary # Null THEN Some(salary[4]) ELSE Null,
         salary_estimated |-> salary_estimated(salary_source),
         extracted |-> extracted]

\* _process_job at `await extract_job_info(description)`
process_job ==
    [pc |-> "extract", extracted |-> None, failures |-> {}, raw |-> Null,
     salary |-> Null, row |-> Null, exc |-> None]

\* The gate and the build of the row, after the salary was extracted or
\* estimated.
Gate(p, raw) ==
    [p EXCEPT !.pc = "insert", !.raw = raw,
              !.salary = apply_confidence_threshold(raw)]

\* line 161: extract_job_info.  A reply that does not parse is replaced by
\* the sentinel dict; an exception of the last retry is not caught.
posting_extract ==
    /\ posting.pc = "extract"
    /\ \/ \E e \in LlmFailures :
            posting' = [posting EXCEPT !.pc = "raised", !.exc = e,
                                       !.failures = @ \cup {e}]
       \/ posting' = [posting EXCEPT !.pc = "salary", !.extracted = "sentinel",
                                     !.failures = @ \cup {"not_json"}]
       \/ posting' = [posting EXCEPT !.pc = "salary", !.extracted = "parsed"]

\* lines 171-174: extract_salary_from_text; without a range in the text the
\* language model is asked.
posting_salary ==
    /\ posting.pc = "salary"
    /\ \E s \in SalaryFromText :
         posting' = IF s # Null THEN Gate(posting, s)
                    ELSE [posting EXCEPT !.pc = "estimate"]

\* line 173: estimate_salary_with_llm
posting_estimate ==
    /\ posting.pc = "estimate"
    /\ \/ \E e \in LlmFailures :
            posting' = [posting EXCEPT !.pc = "raised", !.exc = e,
                                       !.failures = @ \cup {e}]
       \/ posting' = [Gate(posting, Null) EXCEPT !.failures = @ \cup {"not_json"}]
       \/ \E lo \in SalaryFields, hi \in SalaryFields, c \in ConfidenceFields :
            posting' = Gate(posting, estimate_salary(lo, hi, c))

\* lines 190-216: the Job is built, added and committed.
posting_insert ==
    /\ posting.pc = "insert"
    /\ \/ posting' = [posting EXCEPT
                        !.pc = "persisted",
                        !.row = Some(NewJob(posting.salary, posting.extracted))]
       \/ posting' = [posting EXCEPT !.pc = "raised", !.exc = "SQLAlchemyError"]

InitPosting ==
    /\ Start({"c1"})
    /\ posting = process_job
    /\ retry = Off /\ fetch = Off /\ browser = Off /\ scrape = Off
    /\ hours = Off /\ match = Off
    /\ seen = Off
    /\ workday = Off
    /\ nav = Off
    /\ limiter = Off
    /\ json = Off

NextPosting ==
    \/ posting_extract /\ UNCHANGED <<scanVars, retry, fetch, browser, scrape, hours, match, seen, workday, nav, limiter, json>>
    \/ posting_salary /\ UNCHANGED <<scanVars, retry, fetch, browser, scrape, hours, match, seen, workday, nav, limiter, json>>
    \/ posting_estimate /\ UNCHANGED <<scanVars, retry, fetch, browser, scrape, hours, match, seen, workday, nav, limiter, json>>
    \/ posting_insert /\ UNCHANGED <<scanVars, retry, fetch, browser, scrape, hours, match, seen, workday, nav, limiter, json>>

SpecPosting == InitPosting /\ [][NextPosting]_vars

\* the salary tuple has been through the gate
Gated == posting.pc \in {"insert", "persisted"}

C24_LlmFailureNoAbort ==
    (posting.pc # "off" /\ posting.failures # {}) =>
        ~(posting.pc = "raised" /\ posting.exc \in LlmFailures)

\* =====================================================================
\* compute_match_score (api/services/scorer.py).  A score is a fraction
\* [n, d] with d > 0; weights and the result are in units of 0.0001.
\* =====================================================================
TITLE_WEIGHT == 3000
KEYWORD_WEIGHT == 2500
YOE_WEIGHT == 2000
TIER_WEIGHT == 1500
WORK_MODE_WEIGHT == 1000
\* the result 1.0, in units of 0.0001
ONE == 10000
\* score_yoe(..., target_min=8, target_max=15)
target_min == 8
target_max == 15

MaxTitleHits == 4    \* TITLE_PATTERNS that match a title
MaxKeywordHits == 6  \* AI_PATTERNS that match a description
MaxYoe == 30         \* largest years-of-experience figure

Frac(n, d) == [n |-> n, d |-> d]
Max(a, b) == IF a > b THEN a ELSE b
Min(a, b) == IF a < b THEN a ELSE b

\* min(1.0, n / d) for d > 0
min1(n, d) == IF n > d THEN Frac(1, 1) ELSE Frac(n, d)

\* score_title: hits / 3, at most 1
score_title(hits) == min1(hits, 3)

\* score_keywords: hits / 5, at most 1
score_keywords(hits) == min1(hits, 5)

\* variant: the overlap taken without max(0, ...)
score_yoe_signed(yoe_min, yoe_max) ==
    IF yoe_min = Null /\ yoe_max = Null THEN Frac(1, 2)
    ELSE LET low == IF yoe_min # Null THEN yoe_min[1] ELSE target_min
             high == IF yoe_max # Null THEN yoe_max[1] ELSE target_max
             overlap == Min(high, target_max) - Max(low, target_min)
             span == Max(1, high - low)
         IN  min1(overlap, span)

\* score_yoe (lines 73-80)
score_yoe(yoe_min, yoe_max) ==
    IF yoe_min = Null /\ yoe_max = Null THEN Frac(1, 2)
    ELSE LET low == IF yoe_min # Null THEN yoe_min[1] ELSE target_min
             high == IF yoe_max # Null THEN yoe_max[1] ELSE target_max
             overlap == Max(0, Min(high, target_max) - Max(low, target_min))
             span == Max(1, high - low)
         IN  min1(overlap, span)

\* score_company_tier: 1.0, 0.8, 0.6
score_company_tier(tier) ==
    IF tier = 1 THEN Frac(10, 10) ELSE IF tier = 2 THEN Frac(8, 10) ELSE Frac(6, 10)

\* str.lower() on the work modes at hand
lower(s) == IF s = "Remote" THEN "remote" ELSE IF s = "ANY" THEN "any" ELSE s

\* score_work_mode (lines 91-97); `not work_mode` holds for None and ""
score_work_mode(work_mode, PREFERRED_WORK_MODE) ==
    LET preferred == lower(PREFERRED_WORK_MODE)
    IN  IF preferred = "any" THEN Frac(10, 10)
        ELSE IF work_mode = Null \/ work_mode = Some("") THEN Frac(5, 10)
        ELSE IF lower(work_mode[1]) = preferred THEN Frac(10, 10)
        ELSE Frac(2, 10)

\* a + b, as a fraction
FracAdd(a, b) == Frac(a.n * b.d + b.n * a.d, a.d * b.d)

\* round(x, 0) of a fraction x >= 0, ties to even
round(x) ==
    LET q == x.n \div x.d
        r == x.n % x.d
    IN  IF 2 * r < x.d THEN q
        ELSE IF 2 * r > x.d THEN q + 1
        ELSE IF q % 2 = 0 THEN q ELSE q + 1

\* max(0.0, min(1.0, total)), in units of 0.0001
clamp(total) ==
    IF total.n < 0 THEN Frac(0, 1)
    ELSE IF total.n > ONE * total.d THEN Frac(ONE, 1)
    ELSE total

\* The five partial scores of compute_match_score (lines 108-112).
partial_scores(m) ==
    [title |-> score_title(m.title_hits),
     keyword |-> score_keywords(m.keyword_hits),
     yoe |-> score_yoe(m.yoe_min, m.yoe_max),
     tier |-> score_company_tier(m.company_tier),
     work_mode |-> score_work_mode(m.work_mode, m.preferred)]

\* lines 114-122: the weighted sum, clamped and rounded to 4 decimals
weighted_total(p) ==
    LET w(s, weight) == Frac(s.n * weight, s.d)
        total == FracAdd(w(p.title, TITLE_WEIGHT),
                 FracAdd(w(p.keyword, KEYWORD_WEIGHT),
                 FracAdd(w(p.yoe, YOE_WEIGHT),
                 FracAdd(w(p.tier, TIER_WEIGHT), w(p.work_mode, WORK_MODE_WEIGHT)))))
    IN  round(clamp(total))

YoeValues == {Null} \cup {Some(y) : y \in {-1, 0, target_min, 12, target_max, MaxYoe}}
WorkModes == {Null, Some(""), Some("remote"), Some("Remote"), Some("onsite")}
PreferredWorkModes == {"any", "remote"}

\* compute_match_score called; title and description are given by the
\* number of patterns that match them.
compute_match_score ==
    /\ match.pc = "call"
    /\ LET p == partial_scores(match)
       IN  match' = [match EXCEPT !.pc = "returned", !.partial = p,
                                  !.out = weighted_total(p)]

InitMatch ==
    /\ Start({"c1"})
    /\ \E th \in 0..MaxTitleHits, kh \in 0..MaxKeywordHits,
          lo \in YoeValues, hi \in YoeValues, tier \in 0..3,
          wm \in WorkModes, pref \in PreferredWorkModes :
         match = [pc |-> "call", title_hits |-> th, keyword_hits |-> kh,
                  yoe_min |-> lo, yoe_max |-> hi, company_tier |-> tier,
                  work_mode |-> wm, preferred |-> pref,
                  partial |-> Null, out |-> 0]
    /\ retry = Off /\ fetch = Off /\ browser = Off /\ scrape = Off
    /\ hours = Off /\ posting = Off
    /\ seen = Off
    /\ workday = Off
    /\ nav = Off
    /\ limiter = Off
    /\ json = Off

NextMatch ==
    \/ compute_match_score /\ UNCHANGED <<scanVars, retry, fetch, browser, scrape, hours, posting, seen, workday, nav, limiter, json>>

SpecMatch == InitMatch /\ [][NextMatch]_vars

\* 0 <= score <= 1
InUnit(s) == s.d > 0 /\ 0 <= s.n /\ s.n <= s.d

OpenPages ==
    {i \in 1..Len(fetch.st) : fetch.st[i].job_page /\ fetch.st[i].pc # "done"}

\* C28: at no moment of a call are more than MAX_CONCURRENT_PAGES
\* description pages open.
C28_AtMostCapacityPagesOpen ==
    fetch.pc # "off" => Cardinality(OpenPages) <= fetch.pages

\* C25: while the persisted status stays running, no write of ScanState
\* lowers companies_scanned, jobs_found or jobs_new.
C25_CountsMonotonic ==
    [][(/\ StatusOf(scanState) = "running"
        /\ StatusOf(scanState') = "running") =>
           /\ scanState'.companies_scanned >= scanState.companies_scanned
           /\ scanState'.jobs_found >= scanState.jobs_found
           /\ scanState'.jobs_new >= scanState.jobs_new]_vars


\* ---------------------------------------------------------------------
\* The ScanLog row and the completed status (run_full_scan, lines 333-346)
\* ---------------------------------------------------------------------

\* the rows of scan_logs written by scan i
RowsOf(i) == {n \in 1..Len(scanLogs) : scanLogs[n].id = i}

\* scan i has written the completed status and has not returned yet
WroteCompleted(i) == tasks[i].pc \in {"log", "finish"}

\* C26: the ScanLog row of a scan is written before that scan sets the
\* persisted status to completed: whenever the status is completed as
\* written by a scan, the row of that scan is in scan_logs already.
C26_LogBeforeCompleted ==
    \A i \in Inv :
        (WroteCompleted(i) /\ StatusOf(scanState) = "completed") =>
            RowsOf(i) # {}


\* the ScanLog row that holds the counts and the errors of a context
RowOfContext(i, ctx) ==
    [id |-> i, companies_scanned |-> ctx.companies_scanned,
     jobs_found |-> ctx.jobs_found, jobs_new |-> ctx.jobs_new,
     errors |-> ctx.errors]

\* the counts and the errors of the persisted row are those of a context
HoldsContext(st, ctx) ==
    /\ st.companies_scanned = ctx.companies_scanned
    /\ st.jobs_found = ctx.jobs_found
    /\ st.jobs_new = ctx.jobs_new
    /\ st.errors = ctx.errors

\* C27: scan_logs only grows, and by one row at a time: the row of the scan
\* that takes its log step, keyed by its scan_id, which had no row before;
\* the row holds the counts and the errors that scan wrote to ScanState in
\* its completion step (the context does not change in between).  A scan
\* that has returned has exactly one row, a no-op call has none, and no
\* step changes or removes a row that is there.
C27_OneRowPerCompletedScan ==
    [][/\ \/ scanLogs' = scanLogs
          \/ \E i \in Inv :
               /\ tasks[i].pc = "log"
               /\ tasks'[i].pc = "finish"
               /\ RowsOf(i) = {}
               /\ scanLogs' = Append(scanLogs, RowOfContext(i, tasks[i].ctx))
       /\ \A i \in Inv :
            /\ (tasks[i].pc = "complete" /\ tasks'[i].pc = "log") =>
                   /\ HoldsContext(scanState', tasks[i].ctx)
                   /\ tasks'[i].ctx = tasks[i].ctx
            /\ (tasks[i].pc = "log" /\ tasks'[i].pc \in {"log", "finish"}) =>
                   tasks'[i].ctx = tasks[i].ctx
            /\ tasks'[i].pc = "done" =>
                   Cardinality({n \in 1..Len(scanLogs') : scanLogs'[n].id = i}) = 1
            /\ tasks'[i].pc = "noop" =>
                   \A n \in 1..Len(scanLogs') : scanLogs'[n].id # i]_vars

\* a scan that found a new job and recorded a failed company has returned
\* and its row is in scan_logs, after the row of an earlier scan; another
\* call was a no-op
C27_RowWritten ==
    /\ Len(scanLogs) >= 1
    /\ \E i \in Inv :
         /\ tasks[i].pc = "done"
         /\ \E n \in RowsOf(i) : scanLogs[n].jobs_new >= 1
    /\ \E j \in Inv : tasks[j].pc = "noop"


\* ---------------------------------------------------------------------
\* The outcome of a company (_process_company, lines 243-272)
\* ---------------------------------------------------------------------

\* the company task i is processing
CompanyOf(i) == tasks[i].companies[tasks[i].ci]

\* task i leaves _process_company in this step and the company loop of
\* run_full_scan goes on
LeavesCompany(i) ==
    /\ tasks[i].pc \in TryPcs \cup {"handler"}
    /\ tasks'[i].pc \in {"scrape", "complete"}
    /\ tasks[i].pc = "scrape" => tasks'[i].ci # tasks[i].ci

\* C29: a company whose scrape returned in a scan is left at scrape_status
\* success by that scan, and the number of postings scraped for it is added
\* to the scan's jobs_found; a scan leaves a company at failed only when
\* the scrape itself failed.
C29_ScrapedCompanySucceeds ==
    [][\A i \in Inv :
         (LeavesCompany(i) /\ tasks[i].scraped) =>
            /\ companies'[CompanyOf(i)].scrape_status = "success"
            /\ tasks'[i].ctx.jobs_found =
                   tasks[i].ctx.jobs_found + tasks[i].jobs_found]_vars


\* the company's row says that its last scrape failed
Failed(c) == companies[c].scrape_status = "failed"

\* the error list a scan over these companies, in this order, should hold
FailedAmong(cs) == SelectSeq(cs, Failed)

\* C30: once the company loop of a scan is over, the scan's error list
\* holds one entry for each company the scan left at failed and none for a
\* company it left at success, in the order the companies were processed,
\* and the scrape-error counter was incremented once per entry; the list
\* written to scan_logs is that list.
C30_OneErrorPerFailedCompany ==
    \A i \in Inv :
        /\ tasks[i].pc \in {"complete", "log", "finish"} =>
               /\ tasks[i].ctx.errors = FailedAmong(tasks[i].companies)
               /\ metrics.scrape_errors = Len(tasks[i].ctx.errors)
        /\ tasks[i].pc = "done" =>
               \A n \in RowsOf(i) :
                   /\ scanLogs[n].errors =
                          FailedAmong(EnabledCompanies(companies))
                   /\ metrics.scrape_errors = Len(scanLogs[n].errors)

\* a scan that left c1 at success and c2 at failed has returned
C30_OneFailedOneSucceeded ==
    \E i \in Inv :
        /\ tasks[i].pc = "done"
        /\ companies["c1"].scrape_status = "success"
        /\ Failed("c2")
        /\ \E n \in RowsOf(i) : scanLogs[n].errors = <<"c2">>
        /\ metrics.scrape_errors = 1


\* ---------------------------------------------------------------------
\* _process_job on a posting whose url may be persisted already
\* (pipeline.py, lines 141-158, and its caller, lines 255-262)
\* ---------------------------------------------------------------------

\* Job.status
JobStatuses == {"new", "bookmarked", "applied", "hidden"}

\* Job.raw_description: NULL, the empty string or a text
RawDescriptions == {Null, Some(""), Some("jd")}

\* job_data["description"] of the scraped posting
Descriptions == {"", "jd2"}

\* the columns of a persisted Job that this path could touch; match_score
\* and salary_min stand for the columns written at insertion
JobRows ==
    [raw_description : RawDescriptions, status : JobStatuses,
     notified : BOOLEAN, match_score : {Null, Some(7000)},
     salary_min : {Null, Some(1)}, last_seen : {0}]

\* `not existing_job.raw_description`: None and "" are falsy
falsy(v) == v = Null \/ v = Some("")

\* variant: a backfill that overwrites the description it finds
backfill_always(raw, description) == Some(description)

\* lines 151-152: if not existing_job.raw_description:
\*                    existing_job.raw_description = description
backfill(raw, description) ==
    IF falsy(raw) THEN Some(description) ELSE raw

\* lines 146-147: the SELECT by url and `if existing_job`; lines 150-152
\* set the attributes in the session, line 156 is the title filter of a
\* posting that is not persisted
seen_lookup ==
    /\ seen.pc = "call"
    /\ IF seen.existing
       THEN seen' = [seen EXCEPT
                        !.pc = "commit",
                        !.pending = [seen.job EXCEPT
                                        !.last_seen = seen.now,
                                        !.raw_description =
                                            backfill(@, seen.description)]]
       ELSE \E is_potential_match \in BOOLEAN :
              seen' = IF is_potential_match
                      THEN [seen EXCEPT !.pc = "extract"]
                      ELSE [seen EXCEPT !.pc = "returned", !.result = FALSE]

\* line 153: await session.commit(); line 154: return False
seen_commit ==
    /\ seen.pc = "commit"
    /\ \E ok \in BOOLEAN :
         seen' = IF ok
                 THEN [seen EXCEPT !.pc = "returned", !.job = seen.pending,
                                   !.result = FALSE]
                 ELSE [seen EXCEPT !.pc = "raised"]

\* lines 160-226 for a posting that is new: the language-model call, the
\* INSERT and the notifier (studied in the posting section); returns True
seen_new ==
    /\ seen.pc = "extract"
    /\ \E notify \in BOOLEAN :
         seen' = [seen EXCEPT !.pc = "returned", !.result = TRUE,
                              !.llm_calls = @ + 1,
                              !.notifier_calls = @ + (IF notify THEN 1 ELSE 0)]

\* lines 256-259 of _process_company: if is_new: ctx.jobs_new += 1
seen_counted ==
    /\ seen.pc = "returned"
    /\ seen' = [seen EXCEPT !.pc = "done",
                            !.jobs_new = @ + (IF seen.result THEN 1 ELSE 0)]

InitSeen ==
    /\ Start({"c1"})
    /\ retry = Off /\ fetch = Off /\ browser = Off /\ scrape = Off
    /\ hours = Off /\ posting = Off /\ match = Off
    /\ \E row \in JobRows, d \in Descriptions, existing \in BOOLEAN :
         seen = [pc |-> "call", existing |-> existing, before |-> row,
                 job |-> row, pending |-> row, description |-> d,
                 now |-> 1, result |-> FALSE, llm_calls |-> 0,
                 notifier_calls |-> 0, jobs_new |-> 0]
    /\ workday = Off
    /\ nav = Off
    /\ limiter = Off
    /\ json = Off

NextSeen ==
    \/ seen_lookup /\ UNCHANGED <<scanVars, retry, fetch, browser, scrape, hours, posting, match, workday, nav, limiter, json>>
    \/ seen_commit /\ UNCHANGED <<scanVars, retry, fetch, browser, scrape, hours, posting, match, workday, nav, limiter, json>>
    \/ seen_new /\ UNCHANGED <<scanVars, retry, fetch, browser, scrape, hours, posting, match, workday, nav, limiter, json>>
    \/ seen_counted /\ UNCHANGED <<scanVars, retry, fetch, browser, scrape, hours, posting, match, workday, nav, limiter, json>>

SpecSeen == InitSeen /\ [][NextSeen]_vars

\* C31: a call on a posting whose url is persisted leaves the Job as it
\* was but for last_seen, and for raw_description exactly when that was
\* empty; status, notified, match_score and salary keep their values, no
\* language-model call and no notifier call is made, and the caller does
\* not count a new job.  A call that raised has changed nothing.
C31_SeenPostingOnlyRefreshed ==
    (seen.pc # "off" /\ seen.existing) =>
        /\ seen.job.status = seen.before.status
        /\ seen.job.notified = seen.before.notified
        /\ seen.job.match_score = seen.before.match_score
        /\ seen.job.salary_min = seen.before.salary_min
        /\ seen.job.raw_description # seen.before.raw_description =>
               /\ falsy(seen.before.raw_description)
               /\ seen.job.raw_description = Some(seen.description)
        /\ seen.pc \in {"returned", "done"} =>
               /\ seen.job.last_seen = seen.now
               /\ falsy(seen.before.raw_description) =>
                      seen.job.raw_description = Some(seen.description)
               /\ ~seen.result
        /\ seen.pc \in {"call", "commit", "raised"} => seen.job = seen.before
        /\ seen.llm_calls = 0
        /\ seen.notifier_calls = 0
        /\ seen.jobs_new = 0

\* a bookmarked, notified Job with a description was seen again
C31_BookmarkedSeenAgain ==
    /\ seen.pc = "done"
    /\ seen.existing
    /\ seen.before.status = "bookmarked"
    /\ seen.before.raw_description = Some("jd")
    /\ seen.description = "jd2"
    /\ seen.job.last_seen = 1


\* ---------------------------------------------------------------------
\* Workday pagination (scraper.py: _workday_request, lines 453-457, and
\* _scrape_workday_links, lines 460-501)
\* ---------------------------------------------------------------------

\* payload["limit"]
WORKDAY_LIMIT == 50

\* the largest total a response reports
MaxTotal == 101

\* _extract_workday_total of a response: None, or the integer it carries
Totals == {Null} \cup {Some(t) : t \in {0, 1, WORKDAY_LIMIT, WORKDAY_LIMIT + 1,
                                          2 * WORKDAY_LIMIT, MaxTotal}}

\* variant: a request that gives the base URL up after the failed POST
after_scrape_error_post_only(at, locale) ==
    CASE at = "post_base" -> IF locale THEN "post_alt" ELSE "raise"
      [] at = "get_base"  -> IF locale THEN "post_alt" ELSE "raise"
      [] at = "post_alt"  -> "get_alt"
      [] OTHER            -> "raise"

\* where a ScrapeError of the request at hand leads: the except clause of
\* _workday_request (lines 456-457), then the one of the loop (476-479)
after_scrape_error(at, locale) ==
    CASE at = "post_base" -> "get_base"
      [] at = "get_base"  -> IF locale THEN "post_alt" ELSE "raise"
      [] at = "post_alt"  -> "get_alt"
      [] OTHER            -> "raise"

\* variant: a loop that goes on while the offset has not passed the total
last_page_strict(total, offset) ==
    total = Null \/ total[1] = 0 \/ offset > total[1]

\* line 498: `if not total or payload["offset"] >= total`
last_page(total, offset) ==
    total = Null \/ total[1] = 0 \/ offset >= total[1]

\* lines 496-499: the page is read; the offset moves on and the loop ends
\* or asks for the next page
PageRead(w, total) ==
    LET offset == w.offset + WORKDAY_LIMIT
        u == [w EXCEPT !.offset = offset, !.total = total,
                       !.pages = Append(@, [offset |-> w.offset,
                                            limit |-> WORKDAY_LIMIT,
                                            total |-> total,
                                            tried |-> w.tried])]
    IN  IF last_page(total, offset)
        THEN [u EXCEPT !.pc = "returned", !.tried = <<>>]
        ELSE [u EXCEPT !.pc = "post_base", !.tried = <<>>]

\* one _fetch_json call of the request at hand: it ends with the parsed
\* body, with ScrapeError once the retries on httpx.HTTPError and
\* TimeoutError are used up, or with the exception of resp.json() on a body
\* that is no JSON (ValueError), which nothing wraps
WorkdayRequest(at) ==
    /\ workday.pc = at
    /\ \/ \E total \in Totals :
            workday' = PageRead([workday EXCEPT
                                    !.tried = Append(@, <<at, "ok">>)], total)
       \/ LET to == after_scrape_error(at, workday.locale)
              w  == [workday EXCEPT !.tried = Append(@, <<at, "ScrapeError">>)]
          IN  workday' = IF to = "raise"
                         THEN [w EXCEPT !.pc = "raised", !.exc = "ScrapeError"]
                         ELSE [w EXCEPT !.pc = to]
       \/ workday' = [workday EXCEPT !.tried = Append(@, <<at, "ValueError">>),
                                     !.pc = "raised", !.exc = "ValueError"]

\* lines 461-463: no Workday context in the url
workday_context ==
    /\ workday.pc = "call"
    /\ \/ workday' = [workday EXCEPT !.pc = "raised", !.exc = "ScrapeError"]
       \/ workday' = [workday EXCEPT !.pc = "post_base"]

\* line 455: POST to base_api
workday_post_base == WorkdayRequest("post_base")

\* line 457: GET to base_api
workday_get_base == WorkdayRequest("get_base")

\* lines 479 and 455: POST to alt_api
workday_post_alt == WorkdayRequest("post_alt")

\* lines 479 and 457: GET to alt_api
workday_get_alt == WorkdayRequest("get_alt")

InitWorkday ==
    /\ Start({"c1"})
    /\ retry = Off /\ fetch = Off /\ browser = Off /\ scrape = Off
    /\ hours = Off /\ posting = Off /\ match = Off /\ seen = Off
    /\ \E locale \in BOOLEAN :
         workday = [pc |-> "call", locale |-> locale, offset |-> 0,
                    total |-> Null, tried |-> <<>>, pages |-> <<>>,
                    exc |-> None]
    /\ nav = Off
    /\ limiter = Off
    /\ json = Off

NextWorkday ==
    \/ workday_context /\ UNCHANGED <<scanVars, retry, fetch, browser, scrape, hours, posting, match, seen, nav, limiter, json>>
    \/ workday_post_base /\ UNCHANGED <<scanVars, retry, fetch, browser, scrape, hours, posting, match, seen, nav, limiter, json>>
    \/ workday_get_base /\ UNCHANGED <<scanVars, retry, fetch, browser, scrape, hours, posting, match, seen, nav, limiter, json>>
    \/ workday_post_alt /\ UNCHANGED <<scanVars, retry, fetch, browser, scrape, hours, posting, match, seen, nav, limiter, json>>
    \/ workday_get_alt /\ UNCHANGED <<scanVars, retry, fetch, browser, scrape, hours, posting, match, seen, nav, limiter, json>>

SpecWorkday == InitWorkday /\ [][NextWorkday]_vars

\* every request that is sent gets its response or its exception
SpecWorkdayFair == SpecWorkday /\ WF_vars(NextWorkday)


\* the order of the endpoints of one page request
EndpointOrder == <<"post_base", "get_base", "post_alt", "get_alt">>

\* the requests made for one page: a prefix of the order, each request but
\* the first made after a ScrapeError of the one before, the locale URL
\* asked only when there is a locale
InOrder(tried, locale) ==
    /\ Len(tried) <= Len(EndpointOrder)
    /\ \A k \in 1..Len(tried) :
         /\ tried[k][1] = EndpointOrder[k]
         /\ k < Len(tried) => tried[k][2] = "ScrapeError"
         /\ k > 2 => locale

\* C32: for each page the endpoints are tried in the order POST base, GET
\* base, POST locale, GET locale; each one only after the one before
\* failed with a scrape error, the locale URL only when a locale exists.
\* A page that was read ended with the request that succeeded.  When the
\* scrape error propagates, every endpoint there is has failed (two
\* without a locale, four with one), and the failed request is the last
\* request made: no further page is asked for.
C32_EndpointOrder ==
    workday.pc # "off" =>
        /\ InOrder(workday.tried, workday.locale)
        /\ \A p \in 1..Len(workday.pages) :
             /\ InOrder(workday.pages[p].tried, workday.locale)
             /\ workday.pages[p].tried # <<>>
             /\ workday.pages[p].tried[Len(workday.pages[p].tried)][2] = "ok"
        /\ (workday.pc = "raised" /\ workday.tried # <<>>) =>
             /\ workday.tried[Len(workday.tried)][2] = workday.exc
             /\ workday.exc = "ScrapeError" =>
                  Len(workday.tried) = (IF workday.locale THEN 4 ELSE 2)
        /\ workday.pc \in {"returned", "post_base"} => workday.tried = <<>>

\* the second page was read from the locale URL by GET after the three
\* requests before it failed
C32_SecondPageByLocaleGet ==
    /\ workday.pc = "returned"
    /\ Len(workday.pages) = 2
    /\ Len(workday.pages[2].tried) = 4
    /\ Len(workday.pages[1].tried) = 1


\* the response of this page carries no total, or the next offset is not
\* below the total it carries
StopsAfter(page) ==
    \/ page.total = Null
    \/ page.offset + page.limit >= page.total[1]

\* the pagination is over: the links were returned or an exception left
\* the loop
WorkdayEnded == workday.pc \in {"returned", "raised"}

\* pages are asked at offsets 0, 50, 100, ... with limit 50, and the loop
\* stops after the first page that stops it
WorkdayPaging ==
    workday.pc # "off" =>
        /\ \A p \in 1..Len(workday.pages) :
             /\ workday.pages[p].offset = WORKDAY_LIMIT * (p - 1)
             /\ workday.pages[p].limit = WORKDAY_LIMIT
             /\ p < Len(workday.pages) => ~StopsAfter(workday.pages[p])
        /\ workday.offset = WORKDAY_LIMIT * Len(workday.pages)
        /\ workday.pages # <<>> =>
             (StopsAfter(workday.pages[Len(workday.pages)])
                 <=> workday.pc = "returned")
        /\ workday.pc = "returned" => workday.pages # <<>>

\* C33: the Workday pagination terminates when the totals are bounded;
\* pages are requested at offsets 0, 50, 100, ... with limit 50 and the
\* loop stops after the first page whose response carries no total or
\* whose next offset reaches the total; a response without a total ends
\* the loop after that one page.
C33_PaginationTerminates ==
    /\ []WorkdayPaging
    /\ <>WorkdayEnded

\* three pages were read: the totals kept the loop going up to offset 100
C33_ThreePagesRead ==
    /\ workday.pc = "returned"
    /\ Len(workday.pages) = 3
    /\ workday.pages[3].offset = 2 * WORKDAY_LIMIT


\* ---------------------------------------------------------------------
\* The network operations of the browser path (scraper.py: _generic_scrape,
\* lines 197-208, fetch, lines 262-270, _rate_limit, lines 356-358)
\* ---------------------------------------------------------------------

\* settings.SCRAPE_DELAY_MIN, settings.SCRAPE_DELAY_MAX (seconds)
SCRAPE_DELAY_MIN == 5
SCRAPE_DELAY_MAX == 10

\* line 203: await asyncio.sleep(3), the wait for the page's scripts
RENDER_WAIT == 3

\* the links of the careers page that pass the title filter
MaxNavLinks == 2

\* _rate_limit: random.uniform(SCRAPE_DELAY_MIN, SCRAPE_DELAY_MAX), in
\* whole seconds
rate_limit_delays == SCRAPE_DELAY_MIN..SCRAPE_DELAY_MAX

\* what a task did on the network and when it slept, in order
Slept(d) == [kind |-> "sleep", d |-> d]
Went == [kind |-> "goto", d |-> 0]

\* line 200: page = await context.new_page(); line 201: page.goto of the
\* careers page, which no _rate_limit call precedes
nav_goto ==
    /\ nav.pc = "goto"
    /\ \/ nav' = [nav EXCEPT !.pc = "render", !.events = Append(@, Went)]
       \/ nav' = [nav EXCEPT !.pc = "raised", !.events = Append(@, Went)]

\* line 203: await asyncio.sleep(3)
nav_render ==
    /\ nav.pc = "render"
    /\ nav' = [nav EXCEPT !.pc = "extract", !.events = Append(@, Slept(RENDER_WAIT))]

\* lines 204-208: the links, the title filter, page.close(), and the call
\* of _fetch_descriptions_for_links, which starts one fetch task per link
nav_extract ==
    /\ nav.pc = "extract"
    /\ \E n \in 0..MaxNavLinks :
         nav' = [nav EXCEPT !.pc = IF n = 0 THEN "returned" ELSE "gather",
                            !.st = [i \in 1..n |->
                                      [pc |-> "rate_limit", events |-> <<>>]]]

\* line 266: await _rate_limit() of fetch task i
nav_rate_limit(i) ==
    /\ nav.pc = "gather"
    /\ nav.st[i].pc = "rate_limit"
    /\ \E d \in rate_limit_delays :
         nav' = [nav EXCEPT !.st[i].pc = "goto",
                            !.st[i].events = Append(@, Slept(d))]

\* lines 267-268: context.new_page() and job_page.goto(link.url)
nav_job_goto(i) ==
    /\ nav.pc = "gather"
    /\ nav.st[i].pc = "goto"
    /\ nav' = [nav EXCEPT !.st[i].pc = "done",
                          !.st[i].events = Append(@, Went)]

\* asyncio.gather returns once every fetch task is done
nav_return ==
    /\ nav.pc = "gather"
    /\ \A i \in DOMAIN nav.st : nav.st[i].pc = "done"
    /\ nav' = [nav EXCEPT !.pc = "returned"]

InitNav ==
    /\ Start({"c1"})
    /\ retry = Off /\ fetch = Off /\ browser = Off /\ scrape = Off
    /\ hours = Off /\ posting = Off /\ match = Off /\ seen = Off
    /\ workday = Off
    /\ nav = [pc |-> "goto", events |-> <<>>, st |-> <<>>]
    /\ limiter = Off
    /\ json = Off

NextNav ==
    \/ nav_goto /\ UNCHANGED <<scanVars, retry, fetch, browser, scrape, hours, posting, match, seen, workday, limiter, json>>
    \/ nav_render /\ UNCHANGED <<scanVars, retry, fetch, browser, scrape, hours, posting, match, seen, workday, limiter, json>>
    \/ nav_extract /\ UNCHANGED <<scanVars, retry, fetch, browser, scrape, hours, posting, match, seen, workday, limiter, json>>
    \/ \E i \in DOMAIN nav.st : nav_rate_limit(i) /\ UNCHANGED <<scanVars, retry, fetch, browser, scrape, hours, posting, match, seen, workday, limiter, json>>
    \/ \E i \in DOMAIN nav.st : nav_job_goto(i) /\ UNCHANGED <<scanVars, retry, fetch, browser, scrape, hours, posting, match, seen, workday, limiter, json>>
    \/ nav_return /\ UNCHANGED <<scanVars, retry, fetch, browser, scrape, hours, posting, match, seen, workday, limiter, json>>

SpecNav == InitNav /\ [][NextNav]_vars

\* in the events of one task, every navigation comes right after a sleep
\* of a rate-limit duration
SleepBeforeGoto(events) ==
    \A k \in 1..Len(events) :
        events[k].kind = "goto" =>
            /\ k > 1
            /\ events[k - 1].kind = "sleep"
            /\ events[k - 1].d \in SCRAPE_DELAY_MIN..SCRAPE_DELAY_MAX

\* C34: in the browser path every page navigation, that of the careers
\* page and that of every description page, is preceded in its task by a
\* rate-limit sleep of a duration in [SCRAPE_DELAY_MIN, SCRAPE_DELAY_MAX].
C34_SleepBeforeEveryNavigation ==
    nav.pc # "off" =>
        /\ SleepBeforeGoto(nav.events)
        /\ \A i \in DOMAIN nav.st : SleepBeforeGoto(nav.st[i].events)

\* the part of C34 that holds: the description pages
DescriptionPagesRateLimited ==
    nav.pc # "off" => \A i \in DOMAIN nav.st : SleepBeforeGoto(nav.st[i].events)


\* ---------------------------------------------------------------------
\* The persisted ScanState row and the gauge
\* ---------------------------------------------------------------------

\* C35: in every persisted ScanState the number of new jobs is at most the
\* number of jobs found: the scraped count of a company is in the
\* persisted jobs_found no later than one of its new jobs is in the
\* persisted jobs_new.
C35_NewAtMostFound ==
    scanState.exists => scanState.jobs_new <= scanState.jobs_found


Executing == {i \in Inv : tasks[i].pc \notin {"guard", "refused"} \cup Terminal}

\* C37: the scans_running gauge equals the number of run_full_scan
\* invocations that have passed the singleton guard and not yet exited,
\* through completion, exception and cancellation alike; it is never
\* negative and is 0 whenever no scan is executing; no more invocations
\* are executing than were counted by scans_total.
C37_GaugeCountsExecutingScans ==
    /\ metrics.scans_running = Cardinality(Executing)
    /\ metrics.scans_running >= 0
    /\ Executing = {} => metrics.scans_running = 0
    /\ metrics.scans_running <= metrics.scans_total

\* two invocations passed the guard; one completed, one was cancelled, and
\* the gauge is back at 0
C37_GaugeBackAtZero ==
    /\ metrics.scans_total = 2
    /\ metrics.scans_running = 0
    /\ \E i \in Inv : tasks[i].pc = "done"
    /\ \E j \in Inv : tasks[j].pc = "cancelled"


\* ---------------------------------------------------------------------
\* The registry of background tasks (search.py, lines 16-32 and 51-64)
\* ---------------------------------------------------------------------

\* The event loop runs what is ready in the order it became ready: the done
\* callback of a task that ended and the return of a handler are not
\* overtaken for ever.
SpecOneFair ==
    /\ SpecOne
    /\ SF_vars(\E i \in Inv : task_done_callback(i) /\ UNCHANGED helperVars)
    /\ WF_vars(trigger_scan_return /\ UNCHANGED helperVars)

\* C38 as stated: a task of the trigger endpoint is in the registry from
\* its creation until it is done, and the registry never holds a task that
\* is done.
C38_RegistryHoldsNoDoneTask ==
    /\ \A i \in Inv :
         (tasks[i].origin = "trigger" /\ tasks[i].pc \notin Terminal) =>
             i \in background_tasks
    /\ \A i \in background_tasks : tasks[i].pc \notin Terminal

\* the registry holds tasks of the trigger endpoint only, and every one of
\* them that is not done
RegistryTracks ==
    /\ background_tasks \subseteq Inv
    /\ \A i \in Inv :
         /\ i \in background_tasks => tasks[i].origin = "trigger"
         /\ (tasks[i].origin = "trigger" /\ tasks[i].pc \notin Terminal) =>
                i \in background_tasks

\* a step cancels a task only if the task is registered and not done
CancelsLiveOnly ==
    \A i \in Inv :
        (~tasks[i].cancel /\ tasks'[i].cancel) =>
            /\ tasks[i].pc \notin Terminal
            /\ i \in background_tasks

\* C38, amended: a task of the trigger endpoint is in the registry from
\* its creation until it is done; once it has finished, failed or been
\* cancelled its done callback removes it, in a later step of the event
\* loop, so that a done task is in the registry for a while but not for
\* ever; stop cancels only registered tasks that are not done.
C38_DoneTaskRemovedByCallback ==
    /\ []RegistryTracks
    /\ [][CancelsLiveOnly]_vars
    /\ \A i \in 1..MaxInv :
         (i \in background_tasks /\ tasks[i].pc \in Terminal)
             ~> (i \notin background_tasks)

\* a triggered scan was cancelled by a stop request and its callback has
\* taken it out of the registry
C38_CancelledTaskRemoved ==
    /\ \E i \in Inv :
         /\ tasks[i].origin = "trigger"
         /\ tasks[i].pc = "cancelled"
         /\ i \notin background_tasks
    /\ stop = "idle"


\* ---------------------------------------------------------------------
\* RateLimitMiddleware (main.py, lines 38-72)
\* ---------------------------------------------------------------------

\* line 57: window_start = now - 60
WINDOW_SECONDS == 60

\* requests_per_minute, the clock's step and its last value (seconds)
MaxRate == 2
TickSeconds == 30
MaxTime == 120

\* scope["client"][0]
Clients == {"10.0.0.1", "10.0.0.2"}

\* variant: a window that forgets a request after half a minute
in_window_half(t, window_start) == t > window_start + TickSeconds

\* line 61: `t > window_start`
in_window(t, window_start) == t > window_start

\* lines 60-62: the timestamps of the client that are inside the window
clean(times, window_start) ==
    SelectSeq(times, LAMBDA t : in_window(t, window_start))

\* __call__ on an http scope, lines 55-72: clean, then answer 429 when the
\* window is full, else record the request and forward it
limiter_http(c) ==
    /\ limiter.pc = "serving"
    /\ LET kept == clean(limiter.requests[c], limiter.now - WINDOW_SECONDS)
       IN  IF Len(kept) >= limiter.requests_per_minute
           THEN limiter' = [limiter EXCEPT
                               !.requests[c] = kept,
                               !.last = [client |-> c, status |-> 429,
                                         at |-> limiter.now]]
           ELSE limiter' = [limiter EXCEPT
                               !.requests[c] = Append(kept, limiter.now),
                               !.forwarded[c] = Append(@, limiter.now),
                               !.last = [client |-> c, status |-> 200,
                                         at |-> limiter.now]]

\* __call__ on another scope (lifespan, websocket), lines 51-53: forwarded
\* without a look at the window
limiter_other ==
    /\ limiter.pc = "serving"
    /\ limiter.last # [client |-> "other", status |-> 0, at |-> limiter.now]
    /\ limiter' = [limiter EXCEPT !.last = [client |-> "other", status |-> 0,
                                            at |-> limiter.now]]

\* time() moves on
limiter_tick ==
    /\ limiter.pc = "serving"
    /\ limiter.now + TickSeconds <= MaxTime
    /\ limiter' = [limiter EXCEPT !.now = @ + TickSeconds]

InitLimiter ==
    /\ Start({"c1"})
    /\ retry = Off /\ fetch = Off /\ browser = Off /\ scrape = Off
    /\ hours = Off /\ posting = Off /\ match = Off /\ seen = Off
    /\ workday = Off /\ nav = Off
    /\ \E rpm \in 1..MaxRate :
         limiter = [pc |-> "serving", requests_per_minute |-> rpm, now |-> 0,
                    requests |-> [c \in Clients |-> <<>>],
                    forwarded |-> [c \in Clients |-> <<>>],
                    last |-> [client |-> "none", status |-> 0, at |-> 0]]
    /\ json = Off

NextLimiter ==
    \/ \E c \in Clients : limiter_http(c) /\ UNCHANGED <<scanVars, retry, fetch, browser, scrape, hours, posting, match, seen, workday, nav, json>>
    \/ limiter_other /\ UNCHANGED <<scanVars, retry, fetch, browser, scrape, hours, posting, match, seen, workday, nav, json>>
    \/ limiter_tick /\ UNCHANGED <<scanVars, retry, fetch, browser, scrape, hours, posting, match, seen, workday, nav, json>>

SpecLimiter == InitLimiter /\ [][NextLimiter]_vars

\* the requests of client c forwarded in the window of 60 seconds that
\* ends at time e, the window (e - 60, e]
ForwardedIn(c, e) ==
    {k \in 1..Len(limiter.forwarded[c]) :
        /\ limiter.forwarded[c][k] > e - WINDOW_SECONDS
        /\ limiter.forwarded[c][k] <= e}

\* the ends of the windows the clock can tell apart
WindowEnds == {n * TickSeconds : n \in 0..(MaxTime \div TickSeconds + 2)}

\* at most requests_per_minute requests of a client are forwarded in any
\* window; a 429 is answered only to a client whose window is full, and
\* a request is forwarded only to a client whose window has room
WindowRespected ==
    limiter.pc # "off" =>
        /\ \A c \in Clients : \A e \in WindowEnds :
             Cardinality(ForwardedIn(c, e)) <= limiter.requests_per_minute
        /\ limiter.last.status = 429 =>
             Cardinality(ForwardedIn(limiter.last.client, limiter.last.at))
                 = limiter.requests_per_minute
        /\ limiter.last.status = 200 =>
             \E k \in 1..Len(limiter.forwarded[limiter.last.client]) :
                 limiter.forwarded[limiter.last.client][k] = limiter.last.at
        /\ \A c \in Clients : \A k \in 1..Len(limiter.requests[c]) :
             \E m \in 1..Len(limiter.forwarded[c]) :
                 limiter.forwarded[c][m] = limiter.requests[c][k]

\* a request of client c changes the record of c alone; a rejected one
\* records nothing, and a request is rejected exactly when the window of
\* its client is full
ClientsApart ==
    limiter.pc # "off" =>
        \A c \in Clients :
            /\ limiter'.forwarded[c] # limiter.forwarded[c] =>
                   /\ limiter'.last = [client |-> c, status |-> 200,
                                        at |-> limiter.now]
                   /\ Cardinality(ForwardedIn(c, limiter.now))
                          < limiter.requests_per_minute
                   /\ \A d \in Clients \ {c} :
                        /\ limiter'.forwarded[d] = limiter.forwarded[d]
                        /\ limiter'.requests[d] = limiter.requests[d]
            /\ (limiter'.forwarded[c] = limiter.forwarded[c]
                  /\ limiter'.now = limiter.now) =>
                   \A k \in 1..Len(limiter'.requests[c]) :
                       \E m \in 1..Len(limiter.requests[c]) :
                           limiter.requests[c][m] = limiter'.requests[c][k]

\* C39: for each client the limiter forwards at most requests_per_minute
\* requests within any sliding window of 60 seconds and answers every
\* further request in that window with 429; a rejected request is not
\* recorded, and the requests of one client do not count against
\* another.
C39_SlidingWindowPerClient ==
    /\ []WindowRespected
    /\ [][ClientsApart]_vars

\* a client was rejected while its window was full, was admitted again
\* once the window had moved on, and the other client was served meanwhile
C39_AdmittedAgainAfterWindow ==
    /\ limiter.pc = "serving"
    /\ limiter.requests_per_minute = 1
    /\ limiter.forwarded["10.0.0.1"] = <<0, 60>>
    /\ limiter.forwarded["10.0.0.2"] = <<30>>
    /\ limiter.last = [client |-> "10.0.0.1", status |-> 429, at |-> 60]


\* ---------------------------------------------------------------------
\* safe_json_parse (utils/json.py, lines 8-18)
\* ---------------------------------------------------------------------

\* the longest text
MaxText == 4

\* the characters of a text: braces, a digit, a letter of prose, a blank
Chars == {"{", "}", "1", "x", " "}

Texts == UNION {[1..n -> Chars] : n \in 0..MaxText}

\* str.strip() as json.loads applies it: blanks around a document are
\* skipped
RECURSIVE lstrip(_)
lstrip(s) == IF s # <<>> /\ Head(s) = " " THEN lstrip(Tail(s)) ELSE s

RECURSIVE rstrip(_)
rstrip(s) ==
    IF s # <<>> /\ s[Len(s)] = " " THEN rstrip(SubSeq(s, 1, Len(s) - 1)) ELSE s

\* json.loads over these characters: a run of digits is a number, a pair
\* of braces with blanks between them is an object, blanks around the
\* document are allowed; everything else raises JSONDecodeError
json_loads(text) ==
    LET s == rstrip(lstrip(text))
    IN  IF s # <<>> /\ \A k \in 1..Len(s) : s[k] = "1"
        THEN Some([type |-> "int", v |-> Len(s)])
        ELSE IF /\ Len(s) >= 2
                /\ s[1] = "{"
                /\ s[Len(s)] = "}"
                /\ \A k \in 2..(Len(s) - 1) : s[k] = " "
             THEN Some([type |-> "object", v |-> 0])
             ELSE Null

\* re.search(r"\{.*\}", text, re.DOTALL): the span from the first "{" to
\* the last "}" after it, or no match
re_search(text) ==
    LET opens  == {k \in 1..Len(text) : text[k] = "{"}
        closes == {k \in 1..Len(text) : text[k] = "}"}
    IN  IF opens = {} THEN Null
        ELSE LET first == CHOOSE k \in opens : \A m \in opens : k <= m
                 after == {k \in closes : k > first}
             IN  IF after = {} THEN Null
                 ELSE Some(SubSeq(text, first,
                                  CHOOSE k \in after : \A m \in after : m <= k))

\* lines 9-10: return json.loads(text)
json_strict ==
    /\ json.pc = "call"
    /\ json' = IF json_loads(json.text) # Null
               THEN [json EXCEPT !.pc = "returned", !.out = json_loads(json.text)]
               ELSE [json EXCEPT !.pc = "search"]

\* lines 11-14: the except clause looks for the span in braces
json_search ==
    /\ json.pc = "search"
    /\ json' = IF re_search(json.text) = Null
               THEN [json EXCEPT !.pc = "returned", !.out = Null]
               ELSE [json EXCEPT !.pc = "span", !.span = re_search(json.text)[1]]

\* lines 15-18: json.loads of the span, None when that raises as well
json_span ==
    /\ json.pc = "span"
    /\ json' = [json EXCEPT !.pc = "returned", !.out = json_loads(json.span)]

InitJson ==
    /\ Start({"c1"})
    /\ retry = Off /\ fetch = Off /\ browser = Off /\ scrape = Off
    /\ hours = Off /\ posting = Off /\ match = Off /\ seen = Off
    /\ workday = Off /\ nav = Off /\ limiter = Off
    /\ \E text \in Texts :
         json = [pc |-> "call", text |-> text, span |-> <<>>, out |-> Null]

NextJson ==
    \/ json_strict /\ UNCHANGED <<scanVars, retry, fetch, browser, scrape, hours, posting, match, seen, workday, nav, limiter>>
    \/ json_search /\ UNCHANGED <<scanVars, retry, fetch, browser, scrape, hours, posting, match, seen, workday, nav, limiter>>
    \/ json_span /\ UNCHANGED <<scanVars, retry, fetch, browser, scrape, hours, posting, match, seen, workday, nav, limiter>>

SpecJson == InitJson /\ [][NextJson]_vars

\* what safe_json_parse is said to return for a text
SaidToReturn(text) ==
    IF json_loads(text) # Null THEN json_loads(text)
    ELSE IF re_search(text) # Null THEN json_loads(re_search(text)[1])
    ELSE Null

\* C40: for every text safe_json_parse returns, and what it returns is a
\* JSON object or null: the strict parse of the whole text if that parses,
\* otherwise the parse of the span from the first "{" to the last "}" if
\* that parses, otherwise null.
C40_ObjectOrNull ==
    json.pc = "returned" =>
        /\ json.out = SaidToReturn(json.text)
        /\ json.out = Null \/ json.out[1].type = "object"

\* the part of C40 that holds: the three-step result, whatever its type
ReturnsSaidResult ==
    json.pc = "returned" => json.out = SaidToReturn(json.text)

====
